---- MODULE Spec2Model ----
(***************************************************************************)
(* Excel GPT middleware: range-permission policy (RangeValidator), the     *)
(* write pipelines in front of Microsoft Graph, and the name resolver      *)
(* caches.  Strings are sequences of one-character strings, so that        *)
(* parsing, splitting and key building are computed as the code does.      *)
(***************************************************************************)
EXTENDS Integers, Sequences, FiniteSets, TLC

(***************************************************************************)
(* Bounds of the model.                                                    *)
(***************************************************************************)
MaxCol == 2
MaxRow == 2
MaxEntries == 2
MaxStrLen == 6
MaxLoads == 2
MaxOps == 2
MaxPending == 1
MaxCalls == 2
MaxCallers == 2
MaxFetches == 2
MaxGrants == 2
MaxRequests == 102
MaxHandled == 1
MaxAudits == 3
MaxColumnNumber == 16384
MaxGraphFetches == 2

(***************************************************************************)
(* JavaScript string primitives used by the parsers.                       *)
(***************************************************************************)
Alphabet == <<"A","B","C","D","E","F","G","H","I","J","K","L","M",
              "N","O","P","Q","R","S","T","U","V","W","X","Y","Z">>

DigitSeq == <<"0","1","2","3","4","5","6","7","8","9">>

UpperChars == {Alphabet[i] : i \in 1..26}

DigitChars == {DigitSeq[i] : i \in 1..10}

\* 'X'.charCodeAt(0) for an upper-case letter
charCodeAt(ch) == 64 + (CHOOSE i \in 1..26 : Alphabet[i] = ch)

DigitValue(ch) == (CHOOSE i \in 1..10 : DigitSeq[i] = ch) - 1

\* String.prototype.includes for a one-character needle
Includes(s, ch) == \E i \in 1..Len(s) : s[i] = ch

\* String.prototype.indexOf for a one-character needle, 1-based, 0 when absent
IndexOf(s, ch) ==
    IF Includes(s, ch)
    THEN CHOOSE i \in 1..Len(s) : s[i] = ch /\ \A j \in 1..(i-1) : s[j] # ch
    ELSE 0

RECURSIVE Split(_, _)
\* String.prototype.split on a one-character separator
Split(s, sep) ==
    IF ~Includes(s, sep) THEN <<s>>
    ELSE LET i == IndexOf(s, sep)
         IN  <<SubSeq(s, 1, i-1)>> \o Split(SubSeq(s, i+1, Len(s)), sep)

RECURSIVE parseInt(_)
\* parseInt of a string of decimal digits
parseInt(ds) ==
    IF Len(ds) = 0 THEN 0
    ELSE parseInt(SubSeq(ds, 1, Len(ds)-1)) * 10 + DigitValue(ds[Len(ds)])

\* number of leading upper-case letters of s
LeadingUpper(s) ==
    IF \A i \in 1..Len(s) : s[i] \in UpperChars THEN Len(s)
    ELSE (CHOOSE i \in 1..Len(s) :
             s[i] \notin UpperChars /\ \A j \in 1..(i-1) : s[j] \in UpperChars) - 1

\* /^([A-Z]+)(\d+)$/
MatchesCell(s) ==
    LET k == LeadingUpper(s)
    IN  /\ k >= 1
        /\ k < Len(s)
        /\ \A i \in (k+1)..Len(s) : s[i] \in DigitChars

\* /^[A-Z]+$/
AllUpper(s) == Len(s) >= 1 /\ \A i \in 1..Len(s) : s[i] \in UpperChars

\* /^\d+$/
AllDigits(s) == Len(s) >= 1 /\ \A i \in 1..Len(s) : s[i] \in DigitChars

RECURSIVE columnLetterToNumber(_)
\* colNumber = colNumber * 26 + (charCodeAt(i) - 64), left to right
columnLetterToNumber(letters) ==
    IF Len(letters) = 0 THEN 0
    ELSE columnLetterToNumber(SubSeq(letters, 1, Len(letters)-1)) * 26
         + (charCodeAt(letters[Len(letters)]) - 64)

(***************************************************************************)
(* RangeValidator: address parser.  A thrown exception is the record with  *)
(* ok = FALSE.                                                             *)
(***************************************************************************)
NoCell == [col |-> 0, row |-> 0]

ParseFailure == [ok |-> FALSE, sheetName |-> <<>>, startCell |-> NoCell, endCell |-> NoCell]

parseCellAddress(cellAddress) ==
    IF MatchesCell(cellAddress)
    THEN LET k == LeadingUpper(cellAddress)
         IN  [ok |-> TRUE,
              col |-> columnLetterToNumber(SubSeq(cellAddress, 1, k)),
              row |-> parseInt(SubSeq(cellAddress, k+1, Len(cellAddress)))]
    ELSE [ok |-> FALSE, col |-> 0, row |-> 0]

parseRange(range) ==
    LET hasSheet == Includes(range, "!")
        parts == Split(range, "!")
        sheetName == IF hasSheet THEN parts[1] ELSE <<>>
        rangeAddress == IF hasSheet THEN parts[2] ELSE range
        rangeParts == Split(rangeAddress, ":")
    IN  IF Len(rangeParts) # 2 THEN ParseFailure
        ELSE LET startCell == parseCellAddress(rangeParts[1])
                 endCell == parseCellAddress(rangeParts[2])
             IN  IF ~startCell.ok \/ ~endCell.ok THEN ParseFailure
                 ELSE [ok |-> TRUE, sheetName |-> sheetName,
                       startCell |-> [col |-> startCell.col, row |-> startCell.row],
                       endCell |-> [col |-> endCell.col, row |-> endCell.row]]

\* utils parseExcelRange: accepted or rejected, with the counts it reports
parseExcelRange(range) ==
    LET parts == Split(range, ":")
    IN  IF Len(parts) = 1
        THEN IF MatchesCell(parts[1])
             THEN [ok |-> TRUE, isSingleCell |-> TRUE, rowCount |-> 1, columnCount |-> 1]
             ELSE [ok |-> FALSE, isSingleCell |-> FALSE, rowCount |-> 0, columnCount |-> 0]
        ELSE IF Len(parts) = 2 /\ MatchesCell(parts[1]) /\ MatchesCell(parts[2])
        THEN LET s == parseCellAddress(parts[1])
                 e == parseCellAddress(parts[2])
             IN  [ok |-> TRUE, isSingleCell |-> FALSE,
                  rowCount |-> e.row - s.row + 1,
                  columnCount |-> e.col - s.col + 1]
        ELSE [ok |-> FALSE, isSingleCell |-> FALSE, rowCount |-> 0, columnCount |-> 0]

\* the four address forms of the request schema, without the sheet prefix
MatchesAddressForm(a) ==
    LET p == Split(a, ":")
    IN  \/ Len(p) = 1 /\ MatchesCell(p[1])
        \/ Len(p) = 2 /\ MatchesCell(p[1]) /\ MatchesCell(p[2])
        \/ Len(p) = 2 /\ AllUpper(p[1]) /\ AllUpper(p[2])
        \/ Len(p) = 2 /\ AllDigits(p[1]) /\ AllDigits(p[2])

\* schemas.range: /^(?:[^!\n\r]+!)?(?:CELL:CELL|CELL|COL:COL|ROW:ROW)$/
schemasRange(s) ==
    IF Includes(s, "!")
    THEN LET i == IndexOf(s, "!")
         IN  i > 1 /\ MatchesAddressForm(SubSeq(s, i+1, Len(s)))
    ELSE MatchesAddressForm(s)

(***************************************************************************)
(* RangeValidator: geometry.                                               *)
(***************************************************************************)
rangesOverlapAnySheet(range1, range2) ==
    ~(\/ range1.endCell.col < range2.startCell.col
      \/ range2.endCell.col < range1.startCell.col
      \/ range1.endCell.row < range2.startCell.row
      \/ range2.endCell.row < range1.startCell.row)

rangesOverlap(range1, range2) ==
    IF range1.sheetName # <<>> /\ range2.sheetName # <<>> /\ range1.sheetName # range2.sheetName
    THEN FALSE
    ELSE ~(\/ range1.endCell.col < range2.startCell.col
           \/ range2.endCell.col < range1.startCell.col
           \/ range1.endCell.row < range2.startCell.row
           \/ range2.endCell.row < range1.startCell.row)

isRangeContainedNoEndCol(range1, range2) ==
    IF range1.sheetName # <<>> /\ range2.sheetName # <<>> /\ range1.sheetName # range2.sheetName
    THEN FALSE
    ELSE /\ range1.startCell.col >= range2.startCell.col
         /\ range1.startCell.row >= range2.startCell.row
         /\ range1.endCell.row <= range2.endCell.row

isRangeContained(range1, range2) ==
    IF range1.sheetName # <<>> /\ range2.sheetName # <<>> /\ range1.sheetName # range2.sheetName
    THEN FALSE
    ELSE /\ range1.startCell.col >= range2.startCell.col
         /\ range1.endCell.col <= range2.endCell.col
         /\ range1.startCell.row >= range2.startCell.row
         /\ range1.endCell.row <= range2.endCell.row

(***************************************************************************)
(* RangeValidator.validateRange.  The body of the try block yields either  *)
(* a decision or the code "THROWN" (an exception on its way out); the      *)
(* catch block turns the latter into VALIDATION_ERROR.                     *)
(***************************************************************************)
Decision(allowed, code, detail) == [allowed |-> allowed, code |-> code, detail |-> detail]

RECURSIVE LockedLoop(_, _, _)
\* for (const lockedRange of this.lockedRanges), from index i
LockedLoop(parsedRequested, locked, i) ==
    IF i > Len(locked) THEN Decision(FALSE, "NONE", <<>>)
    ELSE LET parsedLocked == parseRange(locked[i])
         IN  IF ~parsedLocked.ok THEN Decision(FALSE, "THROWN", locked[i])
             ELSE IF rangesOverlap(parsedRequested, parsedLocked)
                  THEN Decision(FALSE, "RANGE_LOCKED", locked[i])
                  ELSE LockedLoop(parsedRequested, locked, i+1)

RECURSIVE AllowedLoop(_, _, _)
\* for (const allowedRange of this.allowedRanges), from index i
AllowedLoop(parsedRequested, allowed, i) ==
    IF i > Len(allowed) THEN Decision(FALSE, "RANGE_NOT_ALLOWED", <<>>)
    ELSE LET parsedAllowed == parseRange(allowed[i])
         IN  IF ~parsedAllowed.ok THEN Decision(FALSE, "THROWN", allowed[i])
             ELSE IF /\ rangesOverlap(parsedRequested, parsedAllowed)
                     /\ isRangeContained(parsedRequested, parsedAllowed)
                  THEN Decision(TRUE, "RANGE_ALLOWED", allowed[i])
                  ELSE AllowedLoop(parsedRequested, allowed, i+1)

\* the worksheet qualification of the requested range
QualifiedRange(requestedRange, worksheetId) ==
    IF ~Includes(requestedRange, "!") /\ worksheetId # <<>>
    THEN worksheetId \o <<"!">> \o requestedRange
    ELSE requestedRange

validateRangeTry(allowed, locked, requestedRange, worksheetId) ==
    LET fullRange == QualifiedRange(requestedRange, worksheetId)
        parsedRequested == parseRange(fullRange)
    IN  IF ~parsedRequested.ok THEN Decision(FALSE, "THROWN", fullRange)
        ELSE LET lk == LockedLoop(parsedRequested, locked, 1)
             IN  IF lk.code # "NONE" THEN lk
                 ELSE AllowedLoop(parsedRequested, allowed, 1)

\* validateRange without its catch block
validateRangeNoCatch(allowed, locked, requestedRange, worksheetId) ==
    validateRangeTry(allowed, locked, requestedRange, worksheetId)

validateRange(allowed, locked, requestedRange, worksheetId) ==
    LET r == validateRangeTry(allowed, locked, requestedRange, worksheetId)
    IN  IF r.code = "THROWN"
        THEN Decision(FALSE, "VALIDATION_ERROR", r.detail)
        ELSE r

(***************************************************************************)
(* utils: column number to letters (bijective base 26).                    *)
(***************************************************************************)
RECURSIVE columnNumberToLetterNoDecrement(_)
\* the loop without num--
columnNumberToLetterNoDecrement(num) ==
    IF num <= 0 THEN <<>>
    ELSE columnNumberToLetterNoDecrement(num \div 26) \o <<Alphabet[(num % 26) + 1]>>

RECURSIVE columnNumberToLetter(_)
\* while (num > 0) { num--; result = fromCharCode(65 + num % 26) + result;
\*                   num = floor(num / 26) }
columnNumberToLetter(num) ==
    IF num <= 0 THEN <<>>
    ELSE columnNumberToLetter((num - 1) \div 26) \o <<Alphabet[((num - 1) % 26) + 1]>>

RECURSIVE NumberToString(_)
\* decimal digits of a positive integer
NumberToString(n) ==
    IF n < 10 THEN <<DigitSeq[n + 1]>>
    ELSE NumberToString(n \div 10) \o <<DigitSeq[(n % 10) + 1]>>

(***************************************************************************)
(* Inputs: range strings, worksheet ids and policy documents.              *)
(***************************************************************************)
Cols == 1..MaxCol

Rows == 1..MaxRow

CellStr(c, r) == columnNumberToLetter(c) \o NumberToString(r)

RangeStr(c1, r1, c2, r2) == CellStr(c1, r1) \o <<":">> \o CellStr(c2, r2)

Qualify(sheet, address) == sheet \o <<"!">> \o address

SheetNames == {<<"S">>, <<"T">>}

BareRanges == {RangeStr(c1, r1, c2, r2) : c1 \in Cols, r1 \in Rows, c2 \in Cols, r2 \in Rows}

WellFormedRanges == BareRanges \cup {Qualify(sh, a) : sh \in SheetNames, a \in BareRanges}

MalformedRanges ==
    { <<>>,
      <<"A","1">>,
      <<"A",":","B">>,
      <<"1",":","2">>,
      <<"A","1",":">>,
      <<"a","1",":","b","2">>,
      <<"A","1",":","B","2",":","C","2">>,
      <<"S","!","A","1">>,
      <<"!","A","1",":","B","2">>,
      <<"S","!","A","1",":","B","2","!","T">> }

RequestRanges == WellFormedRanges \cup MalformedRanges

WorksheetIds == {<<>>, <<"S">>}

\* entries a policy document may list: forward ranges, bare and
\* sheet-qualified, and one entry per list that does not parse
AllowedEntries ==
    { RangeStr(1, 1, MaxCol, MaxRow),
      Qualify(<<"S">>, RangeStr(1, 1, 1, MaxRow)),
      <<"A",":","B">> }

LockedEntries ==
    { RangeStr(2, 2, 2, 2),
      Qualify(<<"S">>, RangeStr(1, 1, 1, 1)),
      <<"B","2">> }

\* the lists of at most MaxEntries different entries of S, in every order
ListsOver(S) ==
    {l \in UNION {[1..n -> S] : n \in 0..MaxEntries} :
        \A i \in 1..Len(l), j \in 1..Len(l) : l[i] = l[j] => i = j}

PolicyDocs ==
    {[ok |-> TRUE, allowedRanges |-> a, lockedRanges |-> l] :
        a \in ListsOver(AllowedEntries), l \in ListsOver(LockedEntries)}

\* (range, worksheetId) pairs handed to validateRange
ValidationInputs ==
    {[range |-> r, worksheetId |-> w, other |-> <<>>] :
        r \in BareRanges \cup MalformedRanges, w \in WorksheetIds}
    \cup {[range |-> r, worksheetId |-> <<>>, other |-> <<>>] : r \in WellFormedRanges}
    \cup {[range |-> Qualify(<<"T">>, r), worksheetId |-> <<"S">>, other |-> <<>>] :
             r \in BareRanges}

ProbeChars == {"A", "1", ":", "!", "a"}

ProbeStrings == UNION {[1..n -> ProbeChars] : n \in 0..MaxStrLen}

(***************************************************************************)
(* State.                                                                  *)
(***************************************************************************)
VARIABLES
    policyFile,      \* rangePermissions.json as it is on disk
    allowedRanges,   \* RangeValidator.allowedRanges
    lockedRanges,    \* RangeValidator.lockedRanges
    loads,           \* loadConfig calls suspended at their readFile
    arg,             \* the input of a pure-function run; or the latest addPermission call
    probe,           \* what the function under test returned for arg
    lastValidation,  \* the latest validateRange call: inputs, lists used, result
    lastRequest,     \* the HTTP request handled last, as the client sent it
    lastResponse,    \* the response it was answered with
    graphCalls,      \* the Graph requests issued while handling it, in order
    requestValidations, \* the validateRange results obtained while handling it
    nodeEnv,         \* process.env.NODE_ENV
    permissions,     \* PermissionService.permissions
    handled,         \* the number of requests the server has answered
    resolver,        \* which resolver runs: services/resolverService.js or api/index.js
    now,             \* Date.now()
    driveCache,      \* driveCache: key -> {id, ts}
    itemCache,       \* itemCache: key -> {id, ts}
    worksheetCache,  \* worksheetCache: key -> {id, ts}
    pending,         \* resolutions suspended at their listing request
    lastLookup,      \* the resolution that returned last
    cachedToken,     \* api/index.js: cachedToken (0 stands for null)
    tokenExpiresAt,  \* api/index.js: tokenExpiresAt, epoch ms
    refreshPromise,  \* api/index.js: refreshPromise (0 stands for null)
    accessToken,     \* AzureAuthService.accessToken (0 stands for null)
    tokenExpiry,     \* AzureAuthService.tokenExpiry (0 stands for null)
    fetches,         \* the token requests sent to the identity endpoint, in order
    callers,         \* the getAccessToken calls: where each stands, what it returned
    hits,            \* the general limiter's store: requests counted for the client IP
    served,          \* requests the client has sent in the current window
    lastAnswer,      \* the latest request as the limiter chain answered it
    auditFile,       \* audit-log.json: the ids of its entries, in order
    auditTasks,      \* addAuditEntry calls under way: entry, step, entries read
    auditEvents,     \* write requests finished and addAuditEntry calls made so far
    graphFetches     \* graphFetch calls: where each stands, the requests it sent

httpVars == <<lastRequest, lastResponse, graphCalls, requestValidations, nodeEnv, permissions,
              handled>>

resolverVars == <<resolver, now, driveCache, itemCache, worksheetCache, pending, lastLookup>>

tokenVars == <<cachedToken, tokenExpiresAt, refreshPromise, accessToken, tokenExpiry,
               fetches, callers>>

limiterVars == <<hits, served, lastAnswer>>

auditVars == <<auditFile, auditTasks, auditEvents>>

serviceVars == <<tokenVars, limiterVars, auditVars, graphFetches>>

vars == <<policyFile, allowedRanges, lockedRanges, loads, arg, probe, lastValidation,
          lastRequest, lastResponse, graphCalls, requestValidations, nodeEnv, permissions,
          handled,
          resolver, now, driveCache, itemCache, worksheetCache, pending, lastLookup,
          cachedToken, tokenExpiresAt, refreshPromise, accessToken, tokenExpiry,
          fetches, callers, hits, served, lastAnswer,
          auditFile, auditTasks, auditEvents, graphFetches>>

NoRequest == [method |-> "none", url |-> <<>>, xUserId |-> "", body |-> <<>>]

NoResponse == [status |-> 0]

NoLookup == [kind |-> "none"]

\* the permission configuration of the PermissionService constructor
DefaultPermissions ==
    [admins |-> <<"admin@company.com", "system">>,
     workbooks |-> <<>>,
     worksheets |-> <<>>,
     ranges |-> <<>>,
     tables |-> <<>>,
     defaults |-> [allowReadAll |-> TRUE, allowWriteAll |-> FALSE,
                   inheritFromParent |-> TRUE]]

\* no request handled yet
HttpIdle ==
    /\ nodeEnv = "production"
    /\ permissions = DefaultPermissions
    /\ lastRequest = NoRequest
    /\ lastResponse = NoResponse
    /\ graphCalls = <<>>
    /\ requestValidations = <<>>
    /\ handled = 0

\* the resolver as its constructor leaves it: three empty maps
\* a getAccessToken call that has not been made
NoOutcome == [ok |-> FALSE, token |-> 0]

NoCaller == [pc |-> "idle", fetch |-> 0, arrived |-> {}, result |-> NoOutcome]

NoAnswer == [n |-> 0, status |-> 0]

TokenIdle ==
    /\ cachedToken = 0
    /\ tokenExpiresAt = 0
    /\ refreshPromise = 0
    /\ accessToken = 0
    /\ tokenExpiry = 0
    /\ fetches = <<>>
    /\ callers = [c \in 1..MaxCallers |-> NoCaller]

LimiterIdle ==
    /\ hits = 0
    /\ served = 0
    /\ lastAnswer = NoAnswer

AuditIdle ==
    /\ auditFile = <<>>
    /\ auditTasks = <<>>
    /\ auditEvents = {}

ServiceIdle ==
    /\ TokenIdle
    /\ LimiterIdle
    /\ AuditIdle
    /\ graphFetches = <<>>

ResolverIdle ==
    /\ resolver = "service"
    /\ now = 0
    /\ driveCache = <<>>
    /\ itemCache = <<>>
    /\ worksheetCache = <<>>
    /\ pending = <<>>
    /\ lastLookup = NoLookup

NoArg == [range |-> <<>>, worksheetId |-> <<>>, other |-> <<>>]

NoProbe == [op |-> "none"]

NoValidation == [called |-> FALSE]

NoPolicy == [ok |-> TRUE, allowedRanges |-> <<>>, lockedRanges |-> <<>>]

\* the validator as the constructor leaves it: empty lists, one load started
ValidatorInit ==
    /\ allowedRanges = <<>>
    /\ lockedRanges = <<>>
    /\ loads = <<[phase |-> "reading", data |-> NoPolicy]>>
    /\ lastValidation = NoValidation

\* the validator once the constructor's load of policyFile has completed
ValidatorLoaded ==
    /\ allowedRanges = policyFile.allowedRanges
    /\ lockedRanges = policyFile.lockedRanges
    /\ loads = <<>>
    /\ lastValidation = NoValidation

(***************************************************************************)
(* Address parsers applied to one string.                                  *)
(***************************************************************************)
InitParse ==
    /\ arg \in {[range |-> s, worksheetId |-> <<>>, other |-> <<>>] : s \in ProbeStrings}
    /\ probe = NoProbe
    /\ policyFile = NoPolicy
    /\ ValidatorLoaded
    /\ HttpIdle
    /\ ServiceIdle
    /\ ResolverIdle

ParseProbe ==
    /\ probe = NoProbe
    /\ probe' = [op |-> "parse",
                 input |-> arg.range,
                 validator |-> parseRange(arg.range),
                 utils |-> parseExcelRange(arg.range),
                 schema |-> schemasRange(arg.range)]
    /\ UNCHANGED serviceVars
    /\ UNCHANGED <<httpVars, resolverVars, policyFile, allowedRanges, lockedRanges, loads, arg, lastValidation>>

NextParse == ParseProbe

SpecParse == InitParse /\ [][NextParse]_vars

(***************************************************************************)
(* utils: a column number turned into letters and back.                    *)
(***************************************************************************)
InitColumn ==
    /\ arg \in {[range |-> <<>>, worksheetId |-> <<>>, other |-> n] : n \in 1..MaxColumnNumber}
    /\ probe = NoProbe
    /\ policyFile = NoPolicy
    /\ ValidatorLoaded
    /\ HttpIdle
    /\ ServiceIdle
    /\ ResolverIdle

ColumnProbe ==
    LET letters == columnNumberToLetter(arg.other)
    IN  /\ probe = NoProbe
        /\ probe' = [op |-> "column",
                     num |-> arg.other,
                     letters |-> letters,
                     number |-> columnLetterToNumber(letters)]
        /\ UNCHANGED serviceVars
        /\ UNCHANGED <<httpVars, resolverVars, policyFile, allowedRanges, lockedRanges, loads, arg, lastValidation>>

NextColumn == ColumnProbe

SpecColumn == InitColumn /\ [][NextColumn]_vars

(***************************************************************************)
(* Geometry applied to two parsed ranges.                                  *)
(***************************************************************************)
InitGeometry ==
    /\ arg \in {[range |-> a, worksheetId |-> <<>>, other |-> b] :
                   a \in WellFormedRanges, b \in WellFormedRanges}
    /\ probe = NoProbe
    /\ policyFile = NoPolicy
    /\ ValidatorLoaded
    /\ HttpIdle
    /\ ServiceIdle
    /\ ResolverIdle

GeometryProbe ==
    /\ probe = NoProbe
    /\ LET range1 == parseRange(arg.range)
           range2 == parseRange(arg.other)
       IN  probe' = [op |-> "geometry",
                     range1 |-> range1,
                     range2 |-> range2,
                     overlap |-> rangesOverlap(range1, range2),
                     contained |-> isRangeContained(range1, range2)]
    /\ UNCHANGED serviceVars
    /\ UNCHANGED <<httpVars, resolverVars, policyFile, allowedRanges, lockedRanges, loads, arg, lastValidation>>

NextGeometry == GeometryProbe

SpecGeometry == InitGeometry /\ [][NextGeometry]_vars

(***************************************************************************)
(* RangeValidator.validateRange as an operation: it starts a reload and,   *)
(* without waiting for it, decides on the lists currently in memory.       *)
(***************************************************************************)
ValidationRecord(requestedRange, worksheetId) ==
    [called |-> TRUE,
     range |-> requestedRange,
     worksheetId |-> worksheetId,
     allowedRanges |-> allowedRanges,
     lockedRanges |-> lockedRanges,
     file |-> policyFile,
     result |-> validateRange(allowedRanges, lockedRanges, requestedRange, worksheetId)]

ValidateRange(requestedRange, worksheetId) ==
    /\ Len(loads) < MaxLoads
    /\ loads' = Append(loads, [phase |-> "reading", data |-> NoPolicy])
    /\ lastValidation' = ValidationRecord(requestedRange, worksheetId)
    /\ UNCHANGED serviceVars
    /\ UNCHANGED <<httpVars, resolverVars, policyFile, allowedRanges, lockedRanges, arg, probe>>

InitValidate ==
    /\ policyFile \in PolicyDocs
    /\ arg \in ValidationInputs
    /\ probe = NoProbe
    /\ ValidatorLoaded
    /\ HttpIdle
    /\ ServiceIdle
    /\ ResolverIdle

NextValidate == ValidateRange(arg.range, arg.worksheetId)

SpecValidate == InitValidate /\ [][NextValidate]_vars

(***************************************************************************)
(* The policy document changing on disk while loadConfig calls are         *)
(* suspended at their readFile.  A load takes the file's content when its  *)
(* read happens and assigns the lists when its continuation runs.          *)
(***************************************************************************)
\* a document readFile or JSON.parse fails on
PolicyFailure == [ok |-> FALSE, allowedRanges |-> <<>>, lockedRanges |-> <<>>]

ReloadDocs ==
    { NoPolicy,
      PolicyFailure,
      [ok |-> TRUE, allowedRanges |-> <<RangeStr(1, 1, MaxCol, MaxRow)>>,
                    lockedRanges |-> <<>>],
      [ok |-> TRUE, allowedRanges |-> <<RangeStr(1, 1, MaxCol, MaxRow)>>,
                    lockedRanges |-> <<RangeStr(2, 2, 2, 2)>>] }

ReloadInputs ==
    { [range |-> RangeStr(1, 1, 1, 1), worksheetId |-> <<>>, other |-> <<>>],
      [range |-> RangeStr(2, 2, 2, 2), worksheetId |-> <<"S">>, other |-> <<>>] }

RemoveAt(seq, i) == SubSeq(seq, 1, i - 1) \o SubSeq(seq, i + 1, Len(seq))

\* somebody rewrites rangePermissions.json
EditPolicy(doc) ==
    /\ doc # policyFile
    /\ policyFile' = doc
    /\ UNCHANGED serviceVars
    /\ UNCHANGED <<httpVars, resolverVars, allowedRanges, lockedRanges, loads, arg, probe, lastValidation>>

\* `await fs.readFile(this.configPath, 'utf8')` takes the content
LoadRead(i) ==
    /\ loads[i].phase = "reading"
    /\ loads' = [loads EXCEPT ![i] = [phase |-> "read", data |-> policyFile]]
    /\ UNCHANGED serviceVars
    /\ UNCHANGED <<httpVars, resolverVars, policyFile, allowedRanges, lockedRanges, arg, probe, lastValidation>>

\* what loadConfig logs: 'Range permissions loaded' or 'Failed to load ...'
LoadLogged(ok) == [op |-> "load", ok |-> ok]

\* loadConfig with a catch block that only logs
LoadApplyKeepingLists(i) ==
    /\ loads[i].phase = "read"
    /\ IF loads[i].data.ok
       THEN /\ allowedRanges' = loads[i].data.allowedRanges
            /\ lockedRanges' = loads[i].data.lockedRanges
       ELSE UNCHANGED <<allowedRanges, lockedRanges>>
    /\ probe' = LoadLogged(loads[i].data.ok)
    /\ loads' = RemoveAt(loads, i)
    /\ UNCHANGED serviceVars
    /\ UNCHANGED <<httpVars, resolverVars, policyFile, arg, lastValidation>>

\* the rest of loadConfig: JSON.parse, the two assignments and the info
\* line, or the catch with its error line
LoadApply(i) ==
    /\ loads[i].phase = "read"
    /\ IF loads[i].data.ok
       THEN /\ allowedRanges' = loads[i].data.allowedRanges
            /\ lockedRanges' = loads[i].data.lockedRanges
       ELSE /\ allowedRanges' = <<>>
            /\ lockedRanges' = <<>>
    /\ probe' = LoadLogged(loads[i].data.ok)
    /\ loads' = RemoveAt(loads, i)
    /\ UNCHANGED serviceVars
    /\ UNCHANGED <<httpVars, resolverVars, policyFile, arg, lastValidation>>

InitReload ==
    /\ policyFile \in ReloadDocs
    /\ arg = NoArg
    /\ probe = NoProbe
    /\ ValidatorInit
    /\ HttpIdle
    /\ ServiceIdle
    /\ ResolverIdle

NextReload ==
    \/ \E doc \in ReloadDocs : EditPolicy(doc)
    \/ \E i \in 1..Len(loads) : LoadRead(i)
    \/ \E i \in 1..Len(loads) : LoadApply(i)
    \/ \E a \in ReloadInputs : ValidateRange(a.range, a.worksheetId)

SpecReload == InitReload /\ [][NextReload]_vars

(***************************************************************************)
(* The policy document rewritten once, from FirstPolicy to FinalPolicy,    *)
(* while validateRange calls start loads.                                  *)
(***************************************************************************)
FirstPolicy ==
    [ok |-> TRUE, allowedRanges |-> <<RangeStr(1, 1, MaxCol, MaxRow)>>, lockedRanges |-> <<>>]

FinalPolicy ==
    [ok |-> TRUE, allowedRanges |-> <<RangeStr(1, 1, MaxCol, MaxRow)>>,
                  lockedRanges |-> <<RangeStr(2, 2, 2, 2)>>]

InitConverge ==
    /\ policyFile = FirstPolicy
    /\ arg = NoArg
    /\ probe = NoProbe
    /\ ValidatorInit
    /\ HttpIdle
    /\ ServiceIdle
    /\ ResolverIdle

NextConverge ==
    \/ policyFile = FirstPolicy /\ EditPolicy(FinalPolicy)
    \/ \E i \in 1..Len(loads) : LoadRead(i)
    \/ \E i \in 1..Len(loads) : LoadApply(i)
    \/ \E a \in ReloadInputs : ValidateRange(a.range, a.worksheetId)

SpecConverge == InitConverge /\ [][NextConverge]_vars

(***************************************************************************)
(* The HTTP surface of the server: /api/excel/write and /api/excel/batch.  *)
(* A request body is a function from the field names it carries to their   *)
(* values; a string is a sequence of characters, the values array a        *)
(* sequence of rows.                                                       *)
(***************************************************************************)
Has(obj, k) == k \in DOMAIN obj

\* String.prototype.includes for a needle of any length
IncludesText(s, needle) ==
    \E i \in 0..(Len(s) - Len(needle)) : SubSeq(s, i + 1, i + Len(needle)) = needle

\* app.use('/api/excel', excelRoutes)
MountPath == <<"/","a","p","i","/","e","x","c","e","l">>

WriteUrl == MountPath \o <<"/","w","r","i","t","e">>

BatchUrl == MountPath \o <<"/","b","a","t","c","h">>

AddTableRowsUrl == MountPath \o <<"/","a","d","d","-","t","a","b","l","e","-","r","o","w","s">>

\* the two needles of the path test of rangeValidator.middleware
ExcelWriteText == <<"/","e","x","c","e","l","/","w","r","i","t","e">>

AddTableRowsText ==
    <<"/","e","x","c","e","l","/","a","d","d","-","t","a","b","l","e","-","r","o","w","s">>

\* req.path taken for the url as the client sent it
reqPathUnmounted(originalUrl, mount) == originalUrl

\* req.path inside a router: the url with the mount path removed
reqPath(originalUrl, mount) ==
    IF Len(originalUrl) >= Len(mount) /\ SubSeq(originalUrl, 1, Len(mount)) = mount
    THEN SubSeq(originalUrl, Len(mount) + 1, Len(originalUrl))
    ELSE originalUrl

\* input.replace(/[<>"';]/g, '')
sanitizeInput(input) ==
    SelectSeq(input, LAMBDA ch : ch \notin {"<", ">", "\"", "'", ";"})

StringFields == {"driveId", "itemId", "worksheetId", "range", "tableName"}

\* sanitizeObject on an object whose strings are its StringFields
sanitizeFields(obj) ==
    [k \in DOMAIN obj |-> IF k \in StringFields THEN sanitizeInput(obj[k]) ELSE obj[k]]

\* sanitizeRequest: every string of the body, those of the operations included
sanitizeRequest(body) ==
    [k \in DOMAIN body |->
        IF k \in StringFields THEN sanitizeInput(body[k])
        ELSE IF k = "operations"
        THEN [i \in DOMAIN body[k] |-> sanitizeFields(body[k][i])]
        ELSE body[k]]

\* a Joi.string().min(1) field that is present
NonEmptyString(obj, k) == Has(obj, k) /\ Len(obj[k]) >= 1

\* idOrName: ids or names of the drive and the workbook
idOrName(body) ==
    \/ NonEmptyString(body, "driveId") /\ NonEmptyString(body, "itemId")
    \/ NonEmptyString(body, "driveName") /\ NonEmptyString(body, "itemName")

\* requestSchemas.writeRange
requestSchemasWriteRange(body) ==
    /\ idOrName(body)
    /\ Has(body, "worksheetId") => Len(body.worksheetId) >= 1
    /\ Has(body, "worksheetName") => Len(body.worksheetName) >= 1
    /\ Has(body, "range") /\ schemasRange(body.range)
    /\ Has(body, "values") /\ Len(body.values) >= 1

\* the first match of /[A-Z]+/ or /\d+/ in s: <<>> when there is none
FirstRun(s, chars) ==
    IF \A i \in 1..Len(s) : s[i] \notin chars THEN <<>>
    ELSE LET a == CHOOSE i \in 1..Len(s) :
                      s[i] \in chars /\ \A j \in 1..(i-1) : s[j] \notin chars
             b == CHOOSE i \in a..Len(s) :
                      /\ \A j \in a..i : s[j] \in chars
                      /\ i = Len(s) \/ s[i+1] \notin chars
         IN  SubSeq(s, a, b)

RECURSIVE columnToNumber(_)
\* result = result * 26 + (charCodeAt(i) - 'A'.charCodeAt(0) + 1)
columnToNumber(column) ==
    IF Len(column) = 0 THEN 0
    ELSE columnToNumber(SubSeq(column, 1, Len(column)-1)) * 26
         + (charCodeAt(column[Len(column)]) - charCodeAt("A") + 1)

\* validateRangeValuesCompatibility: TRUE when it calls next()
validateRangeValuesCompatibility(body) ==
    IF ~Has(body, "range") \/ body.range = <<>> \/ ~Has(body, "values") THEN TRUE
    ELSE LET rangeParts == Split(body.range, ":")
         IN  IF Len(rangeParts) # 2 THEN TRUE
             ELSE LET startColMatch == FirstRun(rangeParts[1], UpperChars)
                      startRowMatch == FirstRun(rangeParts[1], DigitChars)
                      endColMatch == FirstRun(rangeParts[2], UpperChars)
                      endRowMatch == FirstRun(rangeParts[2], DigitChars)
                      expectedRows == parseInt(endRowMatch) - parseInt(startRowMatch) + 1
                      expectedCols == columnToNumber(endColMatch)
                                        - columnToNumber(startColMatch) + 1
                  IN  IF <<>> \in {startColMatch, startRowMatch, endColMatch, endRowMatch}
                      THEN TRUE
                      ELSE ~ \/ Len(body.values) # expectedRows
                             \/ Len(body.values) >= 1 /\ Len(body.values[1]) # expectedCols

\* resolverService.parseSheetAndAddress: no sheet name is <<>>
parseSheetAndAddress(maybeQualifiedRange) ==
    LET bangIdx == IndexOf(maybeQualifiedRange, "!") - 1
    IN  IF bangIdx > 0
        THEN [sheetName |-> SubSeq(maybeQualifiedRange, 1, bangIdx),
              address |-> SubSeq(maybeQualifiedRange, bangIdx + 2, Len(maybeQualifiedRange))]
        ELSE [sheetName |-> <<>>, address |-> maybeQualifiedRange]

\* Array.prototype.includes
InList(list, x) == \E i \in 1..Len(list) : list[i] = x

isAdmin(userId) == InList(permissions.admins, userId)

\* `${a}:${b}`
Key2(a, b) == a \o <<":">> \o b

\* `${a}:${b}:${c}`
Key3(a, b, c) == a \o <<":">> \o b \o <<":">> \o c

\* perms.locked, perms.writers?.includes(userId) on an entry of a permission map
IsLocked(perms) == Has(perms, "locked") /\ perms.locked

IsWriter(perms, userId) == Has(perms, "writers") /\ InList(perms.writers, userId)

Verdict(allowed, reason) == [allowed |-> allowed, reason |-> reason]

canWriteRange(userId, workbookId, worksheetId, range) ==
    LET rangeKey == Key3(workbookId, worksheetId, range)
        worksheetKey == Key2(workbookId, worksheetId)
    IN  IF isAdmin(userId) THEN Verdict(TRUE, "Admin access")
        ELSE IF Has(permissions.ranges, rangeKey)
        THEN IF IsLocked(permissions.ranges[rangeKey])
             THEN Verdict(FALSE, "Range is locked")
             ELSE IF IsWriter(permissions.ranges[rangeKey], userId)
             THEN Verdict(TRUE, "Explicit range write permission")
             ELSE Verdict(FALSE, "No write permission for this range")
        ELSE IF Has(permissions.worksheets, worksheetKey)
                /\ IsLocked(permissions.worksheets[worksheetKey])
        THEN Verdict(FALSE, "Worksheet is locked")
        ELSE IF Has(permissions.worksheets, worksheetKey)
                /\ IsWriter(permissions.worksheets[worksheetKey], userId)
        THEN Verdict(TRUE, "Worksheet write permission")
        ELSE IF Has(permissions.workbooks, workbookId)
                /\ IsWriter(permissions.workbooks[workbookId], userId)
        THEN Verdict(TRUE, "Workbook write permission")
        ELSE Verdict(FALSE, "No write permission")

\* perms.readers?.includes(userId), perms.admins?.includes(userId)
IsReader(perms, userId) == Has(perms, "readers") /\ InList(perms.readers, userId)

IsEntryAdmin(perms, userId) == Has(perms, "admins") /\ InList(perms.admins, userId)

canAccessWorkbook(userId, workbookId) ==
    IF isAdmin(userId) THEN TRUE
    ELSE IF Has(permissions.workbooks, workbookId)
    THEN \/ IsReader(permissions.workbooks[workbookId], userId)
         \/ IsWriter(permissions.workbooks[workbookId], userId)
         \/ IsEntryAdmin(permissions.workbooks[workbookId], userId)
    ELSE permissions.defaults.allowReadAll

canAccessWorksheet(userId, workbookId, worksheetId) ==
    LET worksheetKey == Key2(workbookId, worksheetId)
    IN  IF isAdmin(userId) THEN TRUE
        ELSE IF Has(permissions.worksheets, worksheetKey)
        THEN \/ IsReader(permissions.worksheets[worksheetKey], userId)
             \/ IsWriter(permissions.worksheets[worksheetKey], userId)
        ELSE IF permissions.defaults.inheritFromParent
        THEN canAccessWorkbook(userId, workbookId)
        ELSE permissions.defaults.allowReadAll

canReadRange(userId, workbookId, worksheetId, range) ==
    LET rangeKey == Key3(workbookId, worksheetId, range)
    IN  IF isAdmin(userId) THEN Verdict(TRUE, "Admin access")
        ELSE IF Has(permissions.ranges, rangeKey)
        THEN IF \/ IsReader(permissions.ranges[rangeKey], userId)
                \/ IsWriter(permissions.ranges[rangeKey], userId)
             THEN Verdict(TRUE, "Explicit range permission")
             ELSE Verdict(FALSE, "No permission for this range")
        ELSE IF /\ permissions.defaults.inheritFromParent
                /\ canAccessWorksheet(userId, workbookId, worksheetId)
        THEN Verdict(TRUE, "Inherited from worksheet")
        ELSE IF permissions.defaults.allowReadAll
        THEN Verdict(TRUE, "Default read access")
        ELSE Verdict(FALSE, "No read permission")

canReadTable(userId, workbookId, worksheetId, tableName) ==
    LET tableKey == Key3(workbookId, worksheetId, tableName)
    IN  IF isAdmin(userId) THEN Verdict(TRUE, "Admin access")
        ELSE IF Has(permissions.tables, tableKey)
        THEN IF \/ IsReader(permissions.tables[tableKey], userId)
                \/ IsWriter(permissions.tables[tableKey], userId)
             THEN Verdict(TRUE, "Explicit table permission")
             ELSE Verdict(FALSE, "No permission for this table")
        ELSE IF /\ permissions.defaults.inheritFromParent
                /\ canAccessWorksheet(userId, workbookId, worksheetId)
        THEN Verdict(TRUE, "Inherited from worksheet")
        ELSE Verdict(permissions.defaults.allowReadAll, "Default access")

\* canWriteTable whose last resort is the read default
canWriteTableByReadDefault(userId, workbookId, worksheetId, tableName) ==
    LET tableKey == Key3(workbookId, worksheetId, tableName)
        worksheetKey == Key2(workbookId, worksheetId)
    IN  IF isAdmin(userId) THEN Verdict(TRUE, "Admin access")
        ELSE IF Has(permissions.tables, tableKey)
        THEN IF IsLocked(permissions.tables[tableKey])
             THEN Verdict(FALSE, "Table is locked")
             ELSE IF IsWriter(permissions.tables[tableKey], userId)
             THEN Verdict(TRUE, "Explicit table write permission")
             ELSE Verdict(FALSE, "No write permission for this table")
        ELSE IF Has(permissions.worksheets, worksheetKey)
                /\ IsWriter(permissions.worksheets[worksheetKey], userId)
        THEN Verdict(TRUE, "Worksheet write permission")
        ELSE Verdict(permissions.defaults.allowReadAll, "Default access")

canWriteTable(userId, workbookId, worksheetId, tableName) ==
    LET tableKey == Key3(workbookId, worksheetId, tableName)
        worksheetKey == Key2(workbookId, worksheetId)
    IN  IF isAdmin(userId) THEN Verdict(TRUE, "Admin access")
        ELSE IF Has(permissions.tables, tableKey)
        THEN IF IsLocked(permissions.tables[tableKey])
             THEN Verdict(FALSE, "Table is locked")
             ELSE IF IsWriter(permissions.tables[tableKey], userId)
             THEN Verdict(TRUE, "Explicit table write permission")
             ELSE Verdict(FALSE, "No write permission for this table")
        ELSE IF Has(permissions.worksheets, worksheetKey)
                /\ IsWriter(permissions.worksheets[worksheetKey], userId)
        THEN Verdict(TRUE, "Worksheet write permission")
        ELSE Verdict(FALSE, "No write permission")

\* an Error: statusCode 0 and code "" are the properties it does not have
Err(message, statusCode, isOperational, code) ==
    [failed |-> TRUE, message |-> message, statusCode |-> statusCode,
     isOperational |-> isOperational, code |-> code]

NoError == [failed |-> FALSE]

\* the answers of Graph to a PATCH of a range: success, or a GraphError
PatchOutcomes == {"ok", "InvalidArgument", "itemNotFound", "accessDenied"}

\* the error the Graph client throws; the message Graph sends with an
\* InvalidAuthenticationToken answer mentions Authentication
GraphError(code) ==
    Err(IF code = "InvalidAuthenticationToken" THEN "Authentication failed"
        ELSE "Graph request failed",
        IF code = "itemNotFound" THEN 404
        ELSE IF code = "accessDenied" THEN 403
        ELSE IF code = "InvalidAuthenticationToken" THEN 401 ELSE 400,
        FALSE, code)

GraphCall(method, driveId, itemId, worksheetId, range) ==
    [method |-> method, driveId |-> driveId, itemId |-> itemId,
     worksheetId |-> worksheetId, range |-> range]

\* ExcelService.writeRange: the error it throws, if any, and the Graph
\* requests it sent (the GET of the old values may fail without effect)
excelServiceWriteRange(user, params, outcome) ==
    LET hasPermission == canWriteRange(user, params.itemId, params.worksheetId, params.range)
        read == GraphCall("GET", params.driveId, params.itemId, params.worksheetId, params.range)
        patch == GraphCall("PATCH", params.driveId, params.itemId, params.worksheetId, params.range)
    IN  IF ~Has(params, "values") \/ Len(params.values) = 0
        THEN [error |-> Err("Values must be a non-empty array", 0, FALSE, ""), calls |-> <<>>]
        ELSE IF ~hasPermission.allowed
        THEN [error |-> Err("Write access denied: " \o hasPermission.reason, 0, FALSE, ""),
              calls |-> <<>>]
        ELSE IF outcome = "ok"
        THEN [error |-> NoError, calls |-> <<read, patch>>]
        ELSE IF outcome = "InvalidArgument"
        THEN [error |-> Err("Invalid range format or data", 0, FALSE, ""),
              calls |-> <<read, patch>>]
        ELSE IF outcome = "itemNotFound"
        THEN [error |-> Err("Worksheet or range not found", 0, FALSE, ""),
              calls |-> <<read, patch>>]
        ELSE [error |-> GraphError(outcome), calls |-> <<read, patch>>]

\* err.message.includes('Authentication')
MentionsAuthentication(message) ==
    message \in {"Authentication error", "Authentication failed"}

\* globalErrorHandler for an error without err.response: the status and the
\* message of the response
globalErrorHandler(err, env) ==
    LET error == IF MentionsAuthentication(err.message)
                 THEN Err("Authentication error", 401, TRUE, "")
                 ELSE IF err.code \in {"ENOTFOUND", "ECONNREFUSED"}
                 THEN Err("Service temporarily unavailable", 503, TRUE, "")
                 ELSE err
        statusCode == IF error.statusCode = 0 THEN 500 ELSE error.statusCode
    IN  IF env = "development" \/ error.isOperational
        THEN [status |-> statusCode, message |-> error.message]
        ELSE [status |-> 500, message |-> "Internal server error"]

\* what a handler produced: the response, the Graph requests it sent and the
\* validateRange calls it made
Handled(status, message, calls, validated) ==
    [status |-> status, message |-> message, calls |-> calls, validated |-> validated]

\* createAuditContext(req).user; ensureAuthenticated never sets req.user
auditContextUser(req) == IF req.xUserId # "" THEN req.xUserId ELSE "anonymous"

\* ExcelController.writeRange for a body that carries the ids of the drive,
\* the workbook and the worksheet
controllerWriteRange(req, body, outcome) ==
    LET parsed == parseSheetAndAddress(body.range)
        params == [driveId |-> body.driveId, itemId |-> body.itemId,
                   worksheetId |-> body.worksheetId, range |-> parsed.address,
                   values |-> body.values]
        written == excelServiceWriteRange(auditContextUser(req), params, outcome)
        failure == globalErrorHandler(written.error, nodeEnv)
    IN  IF written.error.failed
        THEN Handled(failure.status, failure.message, written.calls, <<>>)
        ELSE Handled(200, "success", written.calls, <<>>)

\* the path test of rangeValidator.middleware for a POST
middlewareValidates(path) ==
    IncludesText(path, ExcelWriteText) \/ IncludesText(path, AddTableRowsText)

\* the validateRange call of rangeValidator.middleware, made when the path
\* test holds and the body has a range
middlewareValidation(body, validates) ==
    IF validates /\ Has(body, "range") /\ body.range # <<>>
    THEN <<ValidationRecord(body.range,
                            IF Has(body, "worksheetId") THEN body.worksheetId ELSE <<>>)>>
    ELSE <<>>

\* the chain of router.post('/write', ...) for the sanitized body, the
\* outcome of the middleware's path test and its validateRange call
writeChain(req, body, tokenOk, outcome, validates, validated) ==
        IF ~tokenOk
        THEN Handled(401, "Authentication failed", <<>>, <<>>)
        ELSE IF validates /\ validated = <<>>
        THEN Handled(400, "Range is required for write operations", <<>>, <<>>)
        ELSE IF validates /\ ~validated[1].result.allowed
        THEN Handled(403, "Range access denied", <<>>, validated)
        ELSE IF ~requestSchemasWriteRange(body)
        THEN Handled(400, "Validation failed", <<>>, validated)
        ELSE IF ~validateRangeValuesCompatibility(body)
        THEN Handled(400, "Range-values mismatch", <<>>, validated)
        ELSE LET done == controllerWriteRange(req, body, outcome)
             IN  Handled(done.status, done.message, done.calls, validated)

\* router.post('/write', ...) behind router.use(sanitizeRequest) and
\* router.use(ensureAuthenticated), for a client within the rate limits
postWrite(req, tokenOk, outcome) ==
    writeChain(req, sanitizeRequest(req.body), tokenOk, outcome,
               middlewareValidates(reqPath(req.url, MountPath)),
               middlewareValidation(sanitizeRequest(req.body),
                                    middlewareValidates(reqPath(req.url, MountPath))))

RECURSIVE batchLoop(_, _, _, _, _)
\* the for loop of batchOperations from index i on; acc holds results,
\* errors and the Graph requests sent so far
batchLoop(req, operations, outcomes, i, acc) ==
    IF i > Len(operations) THEN acc
    ELSE LET operation == operations[i]
             written == excelServiceWriteRange(auditContextUser(req), operation, outcomes[i])
             error == IF operation.type = "write_range" THEN written.error
                      ELSE Err("Unknown operation type", 0, FALSE, "")
             calls == IF operation.type = "write_range" THEN written.calls ELSE <<>>
             next == [results |-> IF error.failed THEN acc.results
                                  ELSE Append(acc.results, i),
                      errors |-> IF error.failed
                                 THEN Append(acc.errors, [index |-> i, error |-> error.message])
                                 ELSE acc.errors,
                      calls |-> acc.calls \o calls]
         IN  IF error.failed /\ MentionsAuthentication(error.message) THEN next
             ELSE batchLoop(req, operations, outcomes, i + 1, next)

\* router.post('/batch', writeLimiter, excelController.batchOperations) for
\* operations of type write_range or of an unknown type
\* the status with 207 for every batch in which an operation failed
batchStatusCodeNeverBadRequest(results, errors) ==
    IF Len(errors) > 0 THEN 207 ELSE 200

\* errors.length > 0 && results.length > 0 ? 207 : errors.length === 0 ? 200 : 400
batchStatusCode(results, errors) ==
    IF Len(errors) > 0 /\ Len(results) > 0 THEN 207
    ELSE IF Len(errors) = 0 THEN 200 ELSE 400

postBatch(req, tokenOk, outcomes) ==
    LET body == sanitizeRequest(req.body)
        done == batchLoop(req, body.operations, outcomes, 1,
                          [results |-> <<>>, errors |-> <<>>, calls |-> <<>>])
        statusCode == batchStatusCode(done.results, done.errors)
    IN  IF ~tokenOk
        THEN Handled(401, "Authentication failed", <<>>, <<>>)
        ELSE IF ~Has(body, "operations") \/ Len(body.operations) = 0
        THEN Handled(400, "Invalid operations array", <<>>, <<>>)
        ELSE Handled(statusCode,
                     IF Len(done.errors) = 0 THEN "success" ELSE "partial_success",
                     done.calls, <<>>)

\* a rows x cols array of values
ValuesOf(rows, cols) == [i \in 1..rows |-> [j \in 1..cols |-> 0]]

WholeGrid == RangeStr(1, 1, MaxCol, MaxRow)

LastCell == RangeStr(MaxCol, MaxRow, MaxCol, MaxRow)

\* range strings of request bodies: well-formed ones, reversed, with
\* characters that sanitizeInput removes, and malformed ones
HttpRanges ==
    { WholeGrid, LastCell, Qualify(<<"S">>, WholeGrid),
      RangeStr(MaxCol, MaxRow, 1, 1),
      CellStr(1, 1),
      WholeGrid \o <<";">>,
      <<"<">> \o LastCell \o <<">">>,
      <<";">>,
      <<>>,
      <<"a","1",":","b","2">>,
      <<"A","1",":">>,
      WholeGrid \o <<":">> \o CellStr(1, 1) }

HttpValues == { ValuesOf(MaxRow, MaxCol), ValuesOf(1, 1) }

HttpUsers == {"system", "user@company.com", ""}

Ids == [driveId |-> <<"D">>, itemId |-> <<"W">>, worksheetId |-> <<"S">>]

WriteBodies ==
    {[driveId |-> Ids.driveId, itemId |-> Ids.itemId, worksheetId |-> Ids.worksheetId,
      range |-> r, values |-> v] : r \in HttpRanges, v \in HttpValues}
    \cup {[driveId |-> Ids.driveId, itemId |-> Ids.itemId, worksheetId |-> Ids.worksheetId,
           values |-> ValuesOf(1, 1)],
          [driveId |-> Ids.driveId, itemId |-> Ids.itemId, worksheetId |-> Ids.worksheetId,
           range |-> WholeGrid],
          [itemId |-> Ids.itemId, worksheetId |-> Ids.worksheetId,
           range |-> WholeGrid, values |-> ValuesOf(MaxRow, MaxCol)]}

WriteRequests ==
    {[method |-> "POST", url |-> WriteUrl, xUserId |-> u, body |-> b] :
        u \in HttpUsers, b \in WriteBodies}

BatchOperationsOf ==
    {[type |-> "write_range", driveId |-> Ids.driveId, itemId |-> Ids.itemId,
      worksheetId |-> Ids.worksheetId, range |-> WholeGrid,
      values |-> ValuesOf(MaxRow, MaxCol)],
     [type |-> "write_range", driveId |-> Ids.driveId, itemId |-> Ids.itemId,
      worksheetId |-> Ids.worksheetId, range |-> LastCell],
     [type |-> "delete_range", driveId |-> Ids.driveId, itemId |-> Ids.itemId,
      worksheetId |-> Ids.worksheetId, range |-> LastCell]}

BatchBodies ==
    {[operations |-> ops] : ops \in UNION {[1..n -> BatchOperationsOf] : n \in 0..MaxOps}}

BatchRequests ==
    {[method |-> "POST", url |-> BatchUrl, xUserId |-> u, body |-> b] :
        u \in HttpUsers, b \in BatchBodies}

BatchOutcomes == {"ok", "accessDenied"}

\* policy documents of the HTTP runs: everything allowed but the last cell,
\* and nothing allowed
HttpDocs ==
    { [ok |-> TRUE, allowedRanges |-> <<WholeGrid>>, lockedRanges |-> <<LastCell>>],
      NoPolicy }

\* requestSchemas.addTableRows
requestSchemasAddTableRows(body) ==
    /\ idOrName(body)
    /\ Has(body, "worksheetId") => Len(body.worksheetId) >= 1
    /\ Has(body, "worksheetName") => Len(body.worksheetName) >= 1
    /\ NonEmptyString(body, "tableName")
    /\ Has(body, "rows") /\ Len(body.rows) >= 1

\* POST .../workbook/worksheets/{worksheetId}/tables/{tableName}/rows
TableRowsCall(driveId, itemId, worksheetId, tableName) ==
    [method |-> "POST", driveId |-> driveId, itemId |-> itemId,
     worksheetId |-> worksheetId, table |-> tableName]

\* ExcelService.addTableRows: the error it throws, if any, and the Graph
\* requests it sent
excelServiceAddTableRows(user, params, outcome) ==
    LET hasPermission == canWriteTable(user, params.itemId, params.worksheetId,
                                       params.tableName)
        post == TableRowsCall(params.driveId, params.itemId, params.worksheetId,
                              params.tableName)
    IN  IF Len(params.rows) = 0
        THEN [error |-> Err("Rows must be a non-empty array", 0, FALSE, ""), calls |-> <<>>]
        ELSE IF ~hasPermission.allowed
        THEN [error |-> Err("Table write access denied: " \o hasPermission.reason, 0, FALSE, ""),
              calls |-> <<>>]
        ELSE IF outcome = "ok"
        THEN [error |-> NoError, calls |-> <<post>>]
        ELSE IF outcome = "InvalidArgument"
        THEN [error |-> Err("Invalid row data format", 0, FALSE, ""), calls |-> <<post>>]
        ELSE IF outcome = "itemNotFound"
        THEN [error |-> Err("Table not found in worksheet", 0, FALSE, ""), calls |-> <<post>>]
        ELSE [error |-> GraphError(outcome), calls |-> <<post>>]

\* ExcelController.addTableRows for a body that carries the ids of the drive,
\* the workbook and the worksheet
controllerAddTableRows(req, body, outcome) ==
    LET params == [driveId |-> body.driveId, itemId |-> body.itemId,
                   worksheetId |-> body.worksheetId, tableName |-> body.tableName,
                   rows |-> body.rows]
        added == excelServiceAddTableRows(auditContextUser(req), params, outcome)
        failure == globalErrorHandler(added.error, nodeEnv)
    IN  IF added.error.failed
        THEN Handled(failure.status, failure.message, added.calls, <<>>)
        ELSE Handled(200, "success", added.calls, <<>>)

\* the chain of router.post('/add-table-rows', ...) for the sanitized body,
\* the outcome of the middleware's path test and its validateRange call
tableChain(req, body, tokenOk, outcome, validates, validated) ==
        IF ~tokenOk
        THEN Handled(401, "Authentication failed", <<>>, <<>>)
        ELSE IF validates /\ validated = <<>>
        THEN Handled(400, "Range is required for write operations", <<>>, <<>>)
        ELSE IF validates /\ ~validated[1].result.allowed
        THEN Handled(403, "Range access denied", <<>>, validated)
        ELSE IF ~requestSchemasAddTableRows(body)
        THEN Handled(400, "Validation failed", <<>>, validated)
        ELSE LET done == controllerAddTableRows(req, body, outcome)
             IN  Handled(done.status, done.message, done.calls, validated)

\* router.post('/add-table-rows', ...) behind router.use(sanitizeRequest) and
\* router.use(ensureAuthenticated), for a client within the rate limits
postAddTableRows(req, tokenOk, outcome) ==
    tableChain(req, sanitizeRequest(req.body), tokenOk, outcome,
               middlewareValidates(reqPath(req.url, MountPath)),
               middlewareValidation(sanitizeRequest(req.body),
                                    middlewareValidates(reqPath(req.url, MountPath))))

\* bodies of POST /api/excel/add-table-rows: the documented one, one with a
\* range added, one without rows and one without the table's name
TableBodies ==
    {[driveId |-> Ids.driveId, itemId |-> Ids.itemId, worksheetId |-> Ids.worksheetId,
      tableName |-> <<"T">>, rows |-> ValuesOf(1, 1)],
     [driveId |-> Ids.driveId, itemId |-> Ids.itemId, worksheetId |-> Ids.worksheetId,
      tableName |-> <<"T">>, rows |-> ValuesOf(1, 1), range |-> WholeGrid],
     [driveId |-> Ids.driveId, itemId |-> Ids.itemId, worksheetId |-> Ids.worksheetId,
      tableName |-> <<"T">>, rows |-> <<>>],
     [driveId |-> Ids.driveId, itemId |-> Ids.itemId, worksheetId |-> Ids.worksheetId,
      rows |-> ValuesOf(1, 1)]}

TableRequests ==
    {[method |-> "POST", url |-> AddTableRowsUrl, xUserId |-> u, body |-> b] :
        u \in HttpUsers, b \in TableBodies}

\* a handler ran: its response, its Graph requests, and for every
\* validateRange call it made the reload that call started
Respond(req, done) ==
    /\ handled < MaxHandled
    /\ handled' = handled + 1
    /\ lastRequest' = req
    /\ lastResponse' = [status |-> done.status, message |-> done.message]
    /\ graphCalls' = done.calls
    /\ requestValidations' = done.validated
    /\ IF done.validated # <<>>
       THEN /\ Len(loads) < MaxLoads
            /\ loads' = Append(loads, [phase |-> "reading", data |-> NoPolicy])
            /\ lastValidation' = done.validated[1]
       ELSE UNCHANGED <<loads, lastValidation>>
    /\ UNCHANGED serviceVars
    /\ UNCHANGED <<policyFile, allowedRanges, lockedRanges, arg, probe,
                   nodeEnv, permissions, resolverVars>>

HandleWrite(req, tokenOk, outcome) ==
    /\ req.method = "POST" /\ req.url = WriteUrl
    /\ Respond(req, postWrite(req, tokenOk, outcome))

HandleBatch(req, tokenOk, outcomes) ==
    /\ req.method = "POST" /\ req.url = BatchUrl
    /\ Respond(req, postBatch(req, tokenOk, outcomes))

HandleAddTableRows(req, tokenOk, outcome) ==
    /\ req.method = "POST" /\ req.url = AddTableRowsUrl
    /\ Respond(req, postAddTableRows(req, tokenOk, outcome))

\* the server once the constructor's load of the policy document is done
Init ==
    /\ policyFile \in HttpDocs
    /\ ValidatorLoaded
    /\ arg = NoArg
    /\ probe = NoProbe
    /\ nodeEnv \in {"development", "production"}
    /\ permissions = DefaultPermissions
    /\ lastRequest = NoRequest
    /\ lastResponse = NoResponse
    /\ graphCalls = <<>>
    /\ requestValidations = <<>>
    /\ handled = 0
    /\ ResolverIdle
    /\ ServiceIdle

Next ==
    \/ \E req \in WriteRequests, tokenOk \in BOOLEAN, outcome \in PatchOutcomes :
           HandleWrite(req, tokenOk, outcome)
    \/ \E req \in BatchRequests, tokenOk \in BOOLEAN :
           \E outcomes \in [1..Len(req.body.operations) -> BatchOutcomes] :
               HandleBatch(req, tokenOk, outcomes)
    \/ \E req \in TableRequests, tokenOk \in BOOLEAN, outcome \in PatchOutcomes :
           HandleAddTableRows(req, tokenOk, outcome)

Spec == Init /\ [][Next]_vars

(***************************************************************************)
(* ExcelController.batchOperations applied to one non-empty operations     *)
(* array, each operation with the answer Graph gives it.                   *)
(***************************************************************************)
BatchProbeOutcomes == BatchOutcomes \cup {"InvalidAuthenticationToken"}

BatchInputs ==
    {[range |-> <<>>, worksheetId |-> <<>>, other |-> [req |-> req, outcomes |-> outcomes]] :
        req \in {r \in BatchRequests : Len(r.body.operations) >= 1},
        outcomes \in [1..MaxOps -> BatchProbeOutcomes]}

InitBatch ==
    /\ arg \in BatchInputs
    /\ probe = NoProbe
    /\ policyFile = NoPolicy
    /\ ValidatorLoaded
    /\ HttpIdle
    /\ ServiceIdle
    /\ ResolverIdle

BatchProbe ==
    LET operations == sanitizeRequest(arg.other.req.body).operations
        done == batchLoop(arg.other.req, operations, arg.other.outcomes, 1,
                          [results |-> <<>>, errors |-> <<>>, calls |-> <<>>])
    IN  /\ probe = NoProbe
        /\ probe' = [op |-> "batch",
                     total |-> Len(operations),
                     results |-> done.results,
                     errors |-> done.errors,
                     status |-> batchStatusCode(done.results, done.errors)]
        /\ UNCHANGED serviceVars
        /\ UNCHANGED <<httpVars, resolverVars, policyFile, allowedRanges, lockedRanges, loads, arg, lastValidation>>

NextBatch == BatchProbe

SpecBatch == InitBatch /\ [][NextBatch]_vars

(***************************************************************************)
(* Name resolution with its caches: ResolverService of the server and the  *)
(* resolve functions of api/index.js.  A resolution that misses the cache  *)
(* is suspended at its listing request; the clock may advance meanwhile.   *)
(* A cache entry carries, besides id and ts, the lookup that stored it     *)
(* (field by), which no code reads.                                        *)
(***************************************************************************)
\* this.ttlMs = 10 * 60 * 1000
ttlMs == 600000

\* const NAME_CACHE_TTL_MS = 10 * 60 * 1000
NAME_CACHE_TTL_MS == 600000

\* the readings of Date.now() at which something happens
Instants == {0, ttlMs - 1, ttlMs, ttlMs + 1}

LowerAlphabet == <<"a","b","c","d","e","f","g","h","i","j","k","l","m",
                   "n","o","p","q","r","s","t","u","v","w","x","y","z">>

\* String.prototype.toLowerCase
toLowerCase(s) ==
    [i \in 1..Len(s) |->
        IF s[i] \in UpperChars
        THEN LowerAlphabet[CHOOSE k \in 1..26 : Alphabet[k] = s[i]]
        ELSE s[i]]

\* what Graph lists: the drives of the site, the children of a drive's
\* root, the worksheets of a workbook.  An item id is unique in its drive
\* only: drives 1 and 2 both hold an item with id 7.
SiteDrives == << [id |-> <<"1">>, name |-> <<"D">>], [id |-> <<"2">>, name |-> <<"E">>] >>

DriveItems(driveId) ==
    IF driveId = <<"1">> THEN << [id |-> <<"7">>, name |-> <<"B">>] >>
    ELSE IF driveId = <<"2">>
    THEN << [id |-> <<"6">>, name |-> <<"B">>], [id |-> <<"7">>, name |-> <<"C">>] >>
    ELSE <<>>

Worksheets(driveId, itemId) ==
    IF driveId = <<"1">> /\ itemId = <<"7">> THEN << [id |-> <<"8">>, name |-> <<"S">>] >>
    ELSE IF driveId = <<"2">> /\ itemId = <<"7">> THEN << [id |-> <<"9">>, name |-> <<"S">>] >>
    ELSE IF driveId = <<"2">> /\ itemId = <<"6">> THEN << [id |-> <<"8">>, name |-> <<"S">>] >>
    ELSE <<>>

Lookup(kind, driveId, itemId, name) ==
    [kind |-> kind, driveId |-> driveId, itemId |-> itemId, name |-> name]

\* the resolutions requested
Lookups ==
    { Lookup("drive", <<>>, <<>>, <<"D">>),
      Lookup("item", <<"1">>, <<>>, <<"B">>),
      Lookup("item", <<"2">>, <<>>, <<"B">>),
      Lookup("worksheet", <<"1">>, <<"7">>, <<"S">>),
      Lookup("worksheet", <<"2">>, <<"7">>, <<"S">>),
      Lookup("worksheet", <<"2">>, <<"6">>, <<"S">>) }

\* the key under which a lookup reads and writes its cache
cacheKeyWithoutDrive(impl, lookup) ==
    IF impl = "service"
    THEN IF lookup.kind = "drive" THEN lookup.name
         ELSE IF lookup.kind = "item" THEN lookup.name
         ELSE Key2(lookup.itemId, lookup.name)
    ELSE IF lookup.kind = "drive" THEN toLowerCase(lookup.name)
         ELSE Key2(lookup.driveId, toLowerCase(lookup.name))

cacheKey(impl, lookup) ==
    IF impl = "service"
    THEN IF lookup.kind = "drive" THEN lookup.name
         ELSE IF lookup.kind = "item" THEN Key2(lookup.driveId, lookup.name)
         ELSE Key2(lookup.itemId, lookup.name)
    ELSE IF lookup.kind = "drive" THEN toLowerCase(lookup.name)
         ELSE Key2(lookup.driveId, toLowerCase(lookup.name))

cacheOf(kind) ==
    IF kind = "drive" THEN driveCache
    ELSE IF kind = "item" THEN itemCache
    ELSE worksheetCache

\* entry && (Date.now() - entry.ts) < ttl, for the entry of key in cache
isFreshInclusive(cache, key, ttl) == Has(cache, key) /\ (now - cache[key].ts) <= ttl

isFresh(cache, key, ttl) == Has(cache, key) /\ (now - cache[key].ts) < ttl

ttlOf(impl) == IF impl = "service" THEN ttlMs ELSE NAME_CACHE_TTL_MS

listingOf(lookup) ==
    IF lookup.kind = "drive" THEN SiteDrives
    ELSE IF lookup.kind = "item" THEN DriveItems(lookup.driveId)
    ELSE Worksheets(lookup.driveId, lookup.itemId)

\* the comparison of find(): worksheets of the service by ===, all others
\* on lower-cased names
nameMatches(impl, lookup, name) ==
    IF impl = "service" /\ lookup.kind = "worksheet" THEN name = lookup.name
    ELSE toLowerCase(name) = toLowerCase(lookup.name)

\* Array.prototype.find: the index of the first match, 0 when there is none
findMatch(impl, lookup, listing) ==
    IF \E i \in 1..Len(listing) : nameMatches(impl, lookup, listing[i].name)
    THEN CHOOSE i \in 1..Len(listing) :
             /\ nameMatches(impl, lookup, listing[i].name)
             /\ \A j \in 1..(i-1) : ~nameMatches(impl, lookup, listing[j].name)
    ELSE 0

\* Map.prototype.set
MapSet(cache, key, entry) ==
    [k \in DOMAIN cache \cup {key} |-> IF k = key THEN entry ELSE cache[k]]

NoEntry == [id |-> <<>>, ts |-> 0, by |-> Lookup("none", <<>>, <<>>, <<>>)]

\* the record of a resolution step: the lookup, the key and clock it used,
\* the entry it found, whether it asked Graph, and what it returned
LookupEvent(lookup, key, step, hit, listing, status, id, names) ==
    [kind |-> lookup.kind, lookup |-> lookup, key |-> key, at |-> now, step |-> step,
     hadEntry |-> Has(cacheOf(lookup.kind), key),
     entry |-> IF Has(cacheOf(lookup.kind), key) THEN cacheOf(lookup.kind)[key] ELSE NoEntry,
     hit |-> hit, listing |-> listing, status |-> status, id |-> id, names |-> names]

\* the names an error carries: none, or those of a listing
NoNames == [carried |-> FALSE, available |-> <<>>]

Names(listing) ==
    [carried |-> TRUE, available |-> [i \in 1..Len(listing) |-> listing[i].name]]

\* what the not-found error of a resolution carries: the service puts
\* JSON.stringify(available) into the message for drives and items and only
\* the requested name for worksheets; the helpers of api/index.js put the
\* listed names into every message
notFoundNames(impl, lookup, listing) ==
    IF impl = "service" /\ lookup.kind = "worksheet" THEN NoNames ELSE Names(listing)

\* the listing request of a resolution joins one already in flight for the
\* same key
joinListing(queue, request) ==
    IF \E i \in 1..Len(queue) : queue[i].key = request.key THEN queue
    ELSE Append(queue, request)

\* `await` of the listing request of a resolution: one more request in flight
issueListing(queue, request) == Append(queue, request)

\* the caches after cache.set(key, entry) by a lookup of this kind
SetCache(kind, key, entry) ==
    /\ driveCache' = IF kind = "drive" THEN MapSet(driveCache, key, entry) ELSE driveCache
    /\ itemCache' = IF kind = "item" THEN MapSet(itemCache, key, entry) ELSE itemCache
    /\ worksheetCache' = IF kind = "worksheet" THEN MapSet(worksheetCache, key, entry)
                         ELSE worksheetCache

\* a resolve...ByName call up to its return from the cache or to its
\* listing request.  The id is what the call hands back on a hit; api/index.js
\* hands it back bare there and inside {id, available} after a listing.
ResolveStart(lookup, limit) ==
    LET key == cacheKey(resolver, lookup)
        cache == cacheOf(lookup.kind)
    IN  /\ resolver = "api" => lookup.kind # "worksheet"
        /\ IF isFresh(cache, key, ttlOf(resolver))
           THEN /\ lastLookup' = LookupEvent(lookup, key, "start", TRUE, FALSE, 200,
                                             cache[key].id, NoNames)
                /\ UNCHANGED pending
           ELSE /\ Len(pending) < limit
                /\ pending' = issueListing(pending, [lookup |-> lookup, key |-> key])
                /\ lastLookup' = LookupEvent(lookup, key, "start", FALSE, TRUE, 0, <<>>, NoNames)
        /\ UNCHANGED serviceVars
        /\ UNCHANGED <<policyFile, allowedRanges, lockedRanges, loads, arg, probe,
                       lastValidation, httpVars, resolver, now,
                       driveCache, itemCache, worksheetCache>>

\* the listing request of a suspended resolution returns: the rest of the
\* call, which stores the match under the key computed at its start
ResolveFinish(i, listed) ==
    LET lookup == pending[i].lookup
        key == pending[i].key
        listing == listingOf(lookup)
        m == findMatch(resolver, lookup, listing)
    IN  /\ pending' = RemoveAt(pending, i)
        /\ IF ~listed
           THEN /\ lastLookup' = LookupEvent(lookup, key, "finish", FALSE, TRUE, 500, <<>>,
                                             NoNames)
                /\ UNCHANGED <<driveCache, itemCache, worksheetCache>>
           ELSE IF m = 0
           THEN /\ lastLookup' = LookupEvent(lookup, key, "finish", FALSE, TRUE, 404, <<>>,
                                             notFoundNames(resolver, lookup, listing))
                /\ UNCHANGED <<driveCache, itemCache, worksheetCache>>
           ELSE /\ lastLookup' = LookupEvent(lookup, key, "finish", FALSE, TRUE, 200,
                                             listing[m].id, NoNames)
                /\ SetCache(lookup.kind, key, [id |-> listing[m].id, ts |-> now, by |-> lookup])
        /\ UNCHANGED serviceVars
        /\ UNCHANGED <<policyFile, allowedRanges, lockedRanges, loads, arg, probe,
                       lastValidation, httpVars, resolver, now>>

\* time passes
Tick(t) ==
    /\ t > now
    /\ now' = t
    /\ lastLookup' = NoLookup
    /\ UNCHANGED serviceVars
    /\ UNCHANGED <<policyFile, allowedRanges, lockedRanges, loads, arg, probe,
                   lastValidation, httpVars, resolver,
                   driveCache, itemCache, worksheetCache, pending>>

InitResolver ==
    /\ policyFile = NoPolicy
    /\ ValidatorLoaded
    /\ arg = NoArg
    /\ probe = NoProbe
    /\ HttpIdle
    /\ ServiceIdle
    /\ resolver \in {"service", "api"}
    /\ now = 0
    /\ driveCache = <<>>
    /\ itemCache = <<>>
    /\ worksheetCache = <<>>
    /\ pending = <<>>
    /\ lastLookup = NoLookup

NextResolver ==
    \/ \E lookup \in Lookups : ResolveStart(lookup, MaxPending)
    \/ \E i \in 1..Len(pending), listed \in BOOLEAN : ResolveFinish(i, listed)
    \/ \E t \in Instants : Tick(t)

SpecResolver == InitResolver /\ [][NextResolver]_vars

(***************************************************************************)
(* One resolution, possibly called several times before its listing        *)
(* request returns, against an empty cache.                                *)
(***************************************************************************)
\* names as requested: as listed, in the other letter case, with a listed
\* name as a prefix, and not listed at all
NameLookups ==
    {Lookup("drive", <<>>, <<>>, n) : n \in {<<"D">>, <<"d">>, <<"D","x">>, <<"X">>}}
    \cup {Lookup("item", <<"2">>, <<>>, n) : n \in {<<"C">>, <<"c">>, <<"C","x">>, <<"X">>}}
    \cup {Lookup("worksheet", <<"1">>, <<"7">>, n) :
              n \in {<<"S">>, <<"s">>, <<"S","x">>, <<"X">>}}

InitLookup ==
    /\ policyFile = NoPolicy
    /\ ValidatorLoaded
    /\ arg \in {[range |-> <<>>, worksheetId |-> <<>>, other |-> l] : l \in NameLookups}
    /\ probe = NoProbe
    /\ HttpIdle
    /\ ServiceIdle
    /\ resolver \in {"service", "api"}
    /\ now = 0
    /\ driveCache = <<>>
    /\ itemCache = <<>>
    /\ worksheetCache = <<>>
    /\ pending = <<>>
    /\ lastLookup = NoLookup

NextLookup ==
    \/ ResolveStart(arg.other, MaxCalls)
    \/ \E i \in 1..Len(pending), listed \in BOOLEAN : ResolveFinish(i, listed)
    \/ \E t \in Instants : Tick(t)

SpecLookup == InitLookup /\ [][NextLookup]_vars

(***************************************************************************)
(* Token acquisition.  api/index.js keeps cachedToken, tokenExpiresAt and  *)
(* refreshPromise in module variables; AzureAuthService keeps accessToken  *)
(* and tokenExpiry.  A token is named by the number of the request that    *)
(* fetched it.                                                             *)
(***************************************************************************)
\* const safetyWindowMs = 60_000
safetyWindowMs == 60000

\* 5 * 60 * 1000, the buffer of AzureAuthService.getAccessToken
tokenBufferMs == 300000

\* Number(json.expires_in) || 3600
defaultExpiresInSec == 3600

TokenInstants == {0, 1000, 3300000, 3540000, 3600000}

\* json.expires_in of a token response: absent, or a lifetime in seconds
ExpiresIn == {0, 30}

\* response.expiresOn - Date.now() of an MSAL response, in ms
Lifetimes == {240000, 3600000}

\* the outcomes of acquireTokenByClientCredential
AcquireOutcomes == {"token", "empty", "error"}

InFlight == {i \in 1..Len(fetches) : fetches[i].state = "pending"}

Outcome(i) == [ok |-> fetches[i].state = "fulfilled", token |-> i]

Called(pc, fetch, result) ==
    [pc |-> pc, fetch |-> fetch, arrived |-> InFlight, result |-> result]

\* cachedToken && now < tokenExpiresAt - safetyWindowMs
cachedTokenIsFresh == cachedToken # 0 /\ now < tokenExpiresAt - safetyWindowMs

\* every caller starts a refresh of its own
refreshInFlightIgnored(promise) == FALSE

\* if (refreshPromise): a refresh is under way, the caller returns its promise
refreshInFlight(promise) == promise # 0

\* getAccessToken of api/index.js from its call to its first suspension
getAccessToken(c) ==
    /\ callers[c].pc = "idle"
    /\ IF cachedTokenIsFresh
       THEN /\ callers' = [callers EXCEPT
                              ![c] = Called("done", 0, [ok |-> TRUE, token |-> cachedToken])]
            /\ UNCHANGED <<refreshPromise, fetches>>
       ELSE IF refreshInFlight(refreshPromise)
       THEN /\ callers' = [callers EXCEPT ![c] = Called("joined", refreshPromise, NoOutcome)]
            /\ UNCHANGED <<refreshPromise, fetches>>
       ELSE /\ Len(fetches) < MaxFetches
            /\ fetches' = Append(fetches, [state |-> "pending"])
            /\ refreshPromise' = Len(fetches) + 1
            /\ callers' = [callers EXCEPT ![c] = Called("owner", Len(fetches) + 1, NoOutcome)]
    /\ UNCHANGED <<cachedToken, tokenExpiresAt, accessToken, tokenExpiry>>
    /\ UNCHANGED <<policyFile, allowedRanges, lockedRanges, loads, arg, probe, lastValidation,
                   httpVars, resolverVars, limiterVars, auditVars, graphFetches>>

\* the body of the refresh promise after its fetch returns
TokenResponse(i, ok, expires_in) ==
    LET expiresInSec == IF expires_in = 0 THEN defaultExpiresInSec ELSE expires_in
    IN  /\ fetches[i].state = "pending"
        /\ IF ok
           THEN /\ fetches' = [fetches EXCEPT ![i].state = "fulfilled"]
                /\ cachedToken' = i
                /\ tokenExpiresAt' = now + expiresInSec * 1000
           ELSE /\ fetches' = [fetches EXCEPT ![i].state = "rejected"]
                /\ UNCHANGED <<cachedToken, tokenExpiresAt>>
        /\ UNCHANGED <<refreshPromise, accessToken, tokenExpiry, callers>>
        /\ UNCHANGED <<policyFile, allowedRanges, lockedRanges, loads, arg, probe,
                       lastValidation, httpVars, resolverVars, limiterVars, auditVars, graphFetches>>

\* the caller that started the refresh resumes: try { await } finally { null }
OwnerResumes(c) ==
    /\ callers[c].pc = "owner"
    /\ fetches[callers[c].fetch].state # "pending"
    /\ callers' = [callers EXCEPT ![c].pc = "done", ![c].result = Outcome(callers[c].fetch)]
    /\ refreshPromise' = 0
    /\ UNCHANGED <<cachedToken, tokenExpiresAt, accessToken, tokenExpiry, fetches>>
    /\ UNCHANGED <<policyFile, allowedRanges, lockedRanges, loads, arg, probe, lastValidation,
                   httpVars, resolverVars, limiterVars, auditVars, graphFetches>>

\* a caller that returned the refresh promise resumes; its reaction was
\* registered after the owner's, so it runs after the owner's finally
JoinerResumes(c) ==
    /\ callers[c].pc = "joined"
    /\ fetches[callers[c].fetch].state # "pending"
    /\ refreshPromise # callers[c].fetch
    /\ callers' = [callers EXCEPT ![c].pc = "done", ![c].result = Outcome(callers[c].fetch)]
    /\ UNCHANGED <<cachedToken, tokenExpiresAt, refreshPromise, accessToken, tokenExpiry,
                   fetches>>
    /\ UNCHANGED <<policyFile, allowedRanges, lockedRanges, loads, arg, probe, lastValidation,
                   httpVars, resolverVars, limiterVars, auditVars, graphFetches>>

\* the caller's request is over; a later request calls again
CallerReturns(c) ==
    /\ callers[c].pc = "done"
    /\ callers' = [callers EXCEPT ![c] = NoCaller]
    /\ UNCHANGED <<cachedToken, tokenExpiresAt, refreshPromise, accessToken, tokenExpiry,
                   fetches>>
    /\ UNCHANGED <<policyFile, allowedRanges, lockedRanges, loads, arg, probe, lastValidation,
                   httpVars, resolverVars, limiterVars, auditVars, graphFetches>>

\* graphFetch on a 401 from Graph: cachedToken = null; tokenExpiresAt = 0
clearCachedToken ==
    /\ cachedToken # 0
    /\ cachedToken' = 0
    /\ tokenExpiresAt' = 0
    /\ UNCHANGED <<refreshPromise, accessToken, tokenExpiry, fetches, callers>>
    /\ UNCHANGED <<policyFile, allowedRanges, lockedRanges, loads, arg, probe, lastValidation,
                   httpVars, resolverVars, limiterVars, auditVars, graphFetches>>

InitToken ==
    /\ policyFile = NoPolicy
    /\ ValidatorLoaded
    /\ arg = NoArg
    /\ probe = NoProbe
    /\ HttpIdle
    /\ ServiceIdle
    /\ ResolverIdle

NextToken ==
    \/ \E c \in 1..MaxCallers : getAccessToken(c)
    \/ \E i \in 1..Len(fetches), ok \in BOOLEAN, e \in ExpiresIn : TokenResponse(i, ok, e)
    \/ \E c \in 1..MaxCallers : OwnerResumes(c)
    \/ \E c \in 1..MaxCallers : JoinerResumes(c)
    \/ \E c \in 1..MaxCallers : CallerReturns(c)
    \/ clearCachedToken
    \/ \E t \in TokenInstants : Tick(t)

SpecToken == InitToken /\ [][NextToken]_vars

(***************************************************************************)
(* api/index.js: graphFetch.  makeRequest awaits getAccessToken and sends  *)
(* the request; a 401 on the first response clears the cached token and    *)
(* calls makeRequest once more.  A request is its status, 0 while the      *)
(* response is awaited.                                                    *)
(***************************************************************************)
GraphStatuses == {200, 401, 500}

NotCleared == [token |-> -1, expiresAt |-> -1]

GraphFetchCall(c) ==
    [pc |-> "token", caller |-> c, requests |-> <<>>, cleared |-> NotCleared, result |-> "none"]

\* the 401 branch always calls makeRequest again with the cache as it is
clearedTokenKept(value) == value

\* cachedToken = null; tokenExpiresAt = 0
clearedToken(value) == 0

\* makeRequest up to the first suspension of its getAccessToken call, which
\* finds the cache holding token and expiresAt
makeRequest(c, token, expiresAt) ==
    /\ callers[c].pc = "idle"
    /\ IF token # 0 /\ now < expiresAt - safetyWindowMs
       THEN /\ callers' = [callers EXCEPT
                              ![c] = Called("done", 0, [ok |-> TRUE, token |-> token])]
            /\ UNCHANGED <<refreshPromise, fetches>>
       ELSE IF refreshInFlight(refreshPromise)
       THEN /\ callers' = [callers EXCEPT ![c] = Called("joined", refreshPromise, NoOutcome)]
            /\ UNCHANGED <<refreshPromise, fetches>>
       ELSE /\ Len(fetches) < MaxFetches
            /\ fetches' = Append(fetches, [state |-> "pending"])
            /\ refreshPromise' = Len(fetches) + 1
            /\ callers' = [callers EXCEPT ![c] = Called("owner", Len(fetches) + 1, NoOutcome)]

\* graphFetch(url, options) up to the first suspension
graphFetch(c) ==
    /\ Len(graphFetches) < MaxGraphFetches
    /\ makeRequest(c, cachedToken, tokenExpiresAt)
    /\ graphFetches' = Append(graphFetches, GraphFetchCall(c))
    /\ UNCHANGED <<cachedToken, tokenExpiresAt, accessToken, tokenExpiry>>
    /\ UNCHANGED <<policyFile, allowedRanges, lockedRanges, loads, arg, probe, lastValidation,
                   httpVars, resolverVars, limiterVars, auditVars>>

\* getAccessToken has returned or thrown: makeRequest calls fetch, or
\* graphFetch throws what getAccessToken threw
GraphSend(g) ==
    LET call == graphFetches[g]
        token == callers[call.caller].result
    IN  /\ call.pc = "token"
        /\ callers[call.caller].pc = "done"
        /\ graphFetches' =
              IF token.ok
              THEN [graphFetches EXCEPT ![g].pc = "sent",
                                        ![g].requests = Append(call.requests, 0)]
              ELSE [graphFetches EXCEPT ![g].pc = "done", ![g].result = "error"]
        /\ callers' = [callers EXCEPT ![call.caller] = NoCaller]
        /\ UNCHANGED <<cachedToken, tokenExpiresAt, refreshPromise, accessToken, tokenExpiry,
                       fetches>>
        /\ UNCHANGED <<policyFile, allowedRanges, lockedRanges, loads, arg, probe,
                       lastValidation, httpVars, resolverVars, limiterVars, auditVars>>

\* the response arrives: a 401 on the first request clears the cache and
\* calls makeRequest again; otherwise graphFetch returns the data or throws
\* `Graph error (status)`
GraphResponse(g, status, c) ==
    LET call == graphFetches[g]
        answered == [call.requests EXCEPT ![Len(call.requests)] = status]
    IN  /\ call.pc = "sent"
        /\ IF status = 401 /\ Len(call.requests) = 1
           THEN /\ cachedToken' = clearedToken(cachedToken)
                /\ tokenExpiresAt' = clearedToken(tokenExpiresAt)
                /\ makeRequest(c, cachedToken', tokenExpiresAt')
                /\ graphFetches' =
                      [graphFetches EXCEPT
                          ![g].pc = "token",
                          ![g].caller = c,
                          ![g].requests = answered,
                          ![g].cleared = [token |-> cachedToken',
                                          expiresAt |-> tokenExpiresAt']]
           ELSE /\ graphFetches' =
                      [graphFetches EXCEPT
                          ![g].pc = "done",
                          ![g].requests = answered,
                          ![g].result = IF status = 200 THEN "data" ELSE "error"]
                /\ c = 1
                /\ UNCHANGED <<cachedToken, tokenExpiresAt, refreshPromise, fetches, callers>>
        /\ UNCHANGED <<accessToken, tokenExpiry>>
        /\ UNCHANGED <<policyFile, allowedRanges, lockedRanges, loads, arg, probe,
                       lastValidation, httpVars, resolverVars, limiterVars, auditVars>>

InitGraph == InitToken

NextGraph ==
    \/ \E c \in 1..MaxCallers : graphFetch(c)
    \/ \E g \in 1..Len(graphFetches) : GraphSend(g)
    \/ \E g \in 1..Len(graphFetches), status \in GraphStatuses, c \in 1..MaxCallers :
          GraphResponse(g, status, c)
    \/ \E i \in 1..Len(fetches), ok \in BOOLEAN, e \in ExpiresIn : TokenResponse(i, ok, e)
    \/ \E c \in 1..MaxCallers : OwnerResumes(c)
    \/ \E c \in 1..MaxCallers : JoinerResumes(c)

SpecGraph == InitGraph /\ [][NextGraph]_vars

\* this.accessToken && this.tokenExpiry && Date.now() < this.tokenExpiry - 5 min
accessTokenIsValid == accessToken # 0 /\ tokenExpiry # 0 /\ now < tokenExpiry - tokenBufferMs

\* AzureAuthService.getAccessToken from its call to
\* await this.clientApp.acquireTokenByClientCredential(...)
azureGetAccessToken(c) ==
    /\ callers[c].pc = "idle"
    /\ IF accessTokenIsValid
       THEN /\ callers' = [callers EXCEPT
                              ![c] = Called("done", 0, [ok |-> TRUE, token |-> accessToken])]
            /\ UNCHANGED fetches
       ELSE /\ Len(fetches) < MaxFetches
            /\ fetches' = Append(fetches, [state |-> "pending"])
            /\ callers' = [callers EXCEPT ![c] = Called("acquiring", Len(fetches) + 1, NoOutcome)]
    /\ UNCHANGED <<cachedToken, tokenExpiresAt, refreshPromise, accessToken, tokenExpiry>>
    /\ UNCHANGED <<policyFile, allowedRanges, lockedRanges, loads, arg, probe, lastValidation,
                   httpVars, resolverVars, limiterVars, auditVars, graphFetches>>

\* AzureAuthService.getAccessToken after acquireTokenByClientCredential settles
azureAcquireReturns(c, outcome, lifetime) ==
    LET i == callers[c].fetch
    IN  /\ callers[c].pc = "acquiring"
        /\ IF outcome = "token"
           THEN /\ fetches' = [fetches EXCEPT ![i].state = "fulfilled"]
                /\ accessToken' = i
                /\ tokenExpiry' = now + lifetime
                /\ callers' = [callers EXCEPT ![c].pc = "done",
                                              ![c].result = [ok |-> TRUE, token |-> i]]
           ELSE /\ fetches' = [fetches EXCEPT ![i].state = "rejected"]
                /\ callers' = [callers EXCEPT ![c].pc = "done",
                                              ![c].result = [ok |-> FALSE, token |-> i]]
                /\ UNCHANGED <<accessToken, tokenExpiry>>
        /\ UNCHANGED <<cachedToken, tokenExpiresAt, refreshPromise>>
        /\ UNCHANGED <<policyFile, allowedRanges, lockedRanges, loads, arg, probe,
                       lastValidation, httpVars, resolverVars, limiterVars, auditVars, graphFetches>>

NextAzure ==
    \/ \E c \in 1..MaxCallers : azureGetAccessToken(c)
    \/ \E c \in 1..MaxCallers, outcome \in AcquireOutcomes, lifetime \in Lifetimes :
          azureAcquireReturns(c, outcome, lifetime)
    \/ \E c \in 1..MaxCallers : CallerReturns(c)
    \/ \E t \in TokenInstants : Tick(t)

SpecAzure == InitToken /\ [][NextAzure]_vars

(***************************************************************************)
(* PermissionService: grants added and removed, and the six checks asked   *)
(* about one user and one workbook, worksheet, range and table.            *)
(***************************************************************************)
PermissionUsers == {"system", "user@company.com", "other@company.com"}

GrantUsers == {"user@company.com", "other@company.com"}

ResourceTypes == {"workbook", "worksheet", "range", "table"}

PermissionKinds == {"reader", "writer", "admin"}

TheWorkbook == <<"W">>

TheWorksheet == <<"S">>

TheRange == <<"A", "1", ":", "B", "2">>

TheTable == <<"T">>

\* the resourceId under which each map keeps the resource
ResourceId(resourceType) ==
    CASE resourceType = "workbook" -> TheWorkbook
      [] resourceType = "worksheet" -> Key2(TheWorkbook, TheWorksheet)
      [] resourceType = "range" -> Key3(TheWorkbook, TheWorksheet, TheRange)
      [] resourceType = "table" -> Key3(TheWorkbook, TheWorksheet, TheTable)

\* this.permissions[`${resourceType}s`]
permissionMap(resourceType) ==
    CASE resourceType = "workbook" -> permissions.workbooks
      [] resourceType = "worksheet" -> permissions.worksheets
      [] resourceType = "range" -> permissions.ranges
      [] resourceType = "table" -> permissions.tables

withPermissionMap(resourceType, map) ==
    CASE resourceType = "workbook" -> [permissions EXCEPT !.workbooks = map]
      [] resourceType = "worksheet" -> [permissions EXCEPT !.worksheets = map]
      [] resourceType = "range" -> [permissions EXCEPT !.ranges = map]
      [] resourceType = "table" -> [permissions EXCEPT !.tables = map]

\* permissionMap[resourceId][`${permission}s`]
permissionListOf(entry, permission) ==
    CASE permission = "reader" -> entry.readers
      [] permission = "writer" -> entry.writers
      [] permission = "admin" -> entry.admins

withPermissionList(entry, permission, list) ==
    CASE permission = "reader" -> [entry EXCEPT !.readers = list]
      [] permission = "writer" -> [entry EXCEPT !.writers = list]
      [] permission = "admin" -> [entry EXCEPT !.admins = list]

NewEntry == [readers |-> <<>>, writers |-> <<>>, admins |-> <<>>]

\* the number of users granted anything anywhere
Granted ==
    LET count(resourceType) ==
            IF Has(permissionMap(resourceType), ResourceId(resourceType))
            THEN LET e == permissionMap(resourceType)[ResourceId(resourceType)]
                 IN  Len(e.readers) + Len(e.writers) + Len(e.admins)
            ELSE 0
    IN  count("workbook") + count("worksheet") + count("range") + count("table")

\* the six checks for one user
AccessDecisions(userId) ==
    [accessWorkbook |-> canAccessWorkbook(userId, TheWorkbook),
     accessWorksheet |-> canAccessWorksheet(userId, TheWorkbook, TheWorksheet),
     readRange |-> canReadRange(userId, TheWorkbook, TheWorksheet, TheRange),
     writeRange |-> canWriteRange(userId, TheWorkbook, TheWorksheet, TheRange),
     readTable |-> canReadTable(userId, TheWorkbook, TheWorksheet, TheTable),
     writeTable |-> canWriteTable(userId, TheWorkbook, TheWorksheet, TheTable)]

\* an addPermission call as arg keeps it: what it granted, what the checks
\* answered before it, the configuration it left
GrantRecord(resourceType, userId, permission, after) ==
    [range |-> <<>>, worksheetId |-> <<>>,
     other |-> [grant |-> <<resourceType, userId, permission>>,
                before |-> [u \in PermissionUsers |-> AccessDecisions(u)],
                after |-> after]]

\* addPermission without what it leaves of arg
pushPermission(resourceType, resourceId, userId, permission) ==
    LET map == permissionMap(resourceType)
        entry == IF Has(map, resourceId) THEN map[resourceId] ELSE NewEntry
        list == permissionListOf(entry, permission)
        pushed == IF InList(list, userId) THEN list ELSE Append(list, userId)
    IN  /\ Granted < MaxGrants
        /\ permissions' = withPermissionMap(resourceType,
                              MapSet(map, resourceId, withPermissionList(entry, permission, pushed)))
        /\ probe' = NoProbe
        /\ UNCHANGED serviceVars
        /\ UNCHANGED <<policyFile, allowedRanges, lockedRanges, loads, lastValidation,
                       lastRequest, lastResponse, graphCalls, requestValidations, nodeEnv,
                       handled,
                       resolverVars>>

addPermission(resourceType, resourceId, userId, permission) ==
    /\ pushPermission(resourceType, resourceId, userId, permission)
    /\ UNCHANGED arg

\* addPermission, arg keeping the call
addPermissionRecorded(resourceType, resourceId, userId, permission) ==
    /\ pushPermission(resourceType, resourceId, userId, permission)
    /\ arg' = GrantRecord(resourceType, userId, permission, permissions')

removePermission(resourceType, resourceId, userId, permission) ==
    LET map == permissionMap(resourceType)
    IN  /\ IF Has(map, resourceId)
           THEN LET list == permissionListOf(map[resourceId], permission)
                    index == IndexOf(list, userId)
                IN  permissions' =
                        IF index > 0
                        THEN withPermissionMap(resourceType,
                                 MapSet(map, resourceId,
                                        withPermissionList(map[resourceId], permission,
                                                           RemoveAt(list, index))))
                        ELSE permissions
           ELSE UNCHANGED permissions
        /\ probe' = NoProbe
        /\ UNCHANGED serviceVars
        /\ UNCHANGED <<policyFile, allowedRanges, lockedRanges, loads, arg, lastValidation,
                       lastRequest, lastResponse, graphCalls, requestValidations, nodeEnv,
                       handled,
                       resolverVars>>

\* the six checks asked about one user
CheckPermissions(userId) ==
    /\ probe' = [op |-> "permission", userId |-> userId,
                 accessWorkbook |-> canAccessWorkbook(userId, TheWorkbook),
                 accessWorksheet |-> canAccessWorksheet(userId, TheWorkbook, TheWorksheet),
                 readRange |-> canReadRange(userId, TheWorkbook, TheWorksheet, TheRange),
                 writeRange |-> canWriteRange(userId, TheWorkbook, TheWorksheet, TheRange),
                 readTable |-> canReadTable(userId, TheWorkbook, TheWorksheet, TheTable),
                 writeTable |-> canWriteTable(userId, TheWorkbook, TheWorksheet, TheTable)]
    /\ UNCHANGED serviceVars
    /\ UNCHANGED <<policyFile, allowedRanges, lockedRanges, loads, arg, lastValidation,
                   httpVars, resolverVars>>

InitPermission == InitToken

NextPermission ==
    \/ \E t \in ResourceTypes, u \in GrantUsers, p \in PermissionKinds :
          addPermission(t, ResourceId(t), u, p)
    \/ \E t \in ResourceTypes, u \in GrantUsers, p \in PermissionKinds :
          removePermission(t, ResourceId(t), u, p)
    \/ \E u \in PermissionUsers : CheckPermissions(u)

SpecPermission == InitPermission /\ [][NextPermission]_vars

(***************************************************************************)
(* Grants and revocations for one user, each addPermission call kept in    *)
(* arg together with what the checks answered before it.                   *)
(***************************************************************************)
RevocableKinds == {"reader", "writer"}

InitGrant == InitToken

NextGrant ==
    \/ \E t \in ResourceTypes, p \in RevocableKinds :
          addPermissionRecorded(t, ResourceId(t), "user@company.com", p)
    \/ \E t \in ResourceTypes, p \in RevocableKinds :
          removePermission(t, ResourceId(t), "user@company.com", p)
    \/ \E u \in PermissionUsers : CheckPermissions(u)

SpecGrant == InitGrant /\ [][NextGrant]_vars

(***************************************************************************)
(* The general rate limiter.  One rateLimit(...) instance, with one store, *)
(* is used twice: app.use(generalLimiter) in the server and                *)
(* router.use(generalLimiter) in the /api/excel router.  Each time the     *)
(* middleware runs it increments the store's count for the client's IP and *)
(* answers 429 when the count exceeds max.                                 *)
(***************************************************************************)
\* parseInt(process.env.RATE_LIMIT_MAX_REQUESTS) || 100
RATE_LIMIT_MAX_REQUESTS == 100

\* generalLimiter: store.increment(key), then totalHits > max
generalLimiter(count) ==
    [totalHits |-> count + 1, limited |-> count + 1 > RATE_LIMIT_MAX_REQUESTS]

Answer(status) == [n |-> served + 1, status |-> status]

\* one request of the client to an /api/excel endpoint: the app's limiter,
\* then in the router sanitizeRequest, ensureAuthenticated and the router's
\* limiter, then the route
ExcelRequest(tokenOk) ==
    LET first == generalLimiter(hits)
        second == generalLimiter(first.totalHits)
    IN  /\ served < MaxRequests
        /\ served' = served + 1
        /\ IF first.limited
           THEN /\ hits' = first.totalHits
                /\ lastAnswer' = Answer(429)
           ELSE IF ~tokenOk
           THEN /\ hits' = first.totalHits
                /\ lastAnswer' = Answer(401)
           ELSE /\ hits' = second.totalHits
                /\ lastAnswer' = Answer(IF second.limited THEN 429 ELSE 200)
        /\ UNCHANGED <<tokenVars, auditVars, graphFetches>>
        /\ UNCHANGED <<policyFile, allowedRanges, lockedRanges, loads, arg, probe,
                       lastValidation, httpVars, resolverVars>>

\* windowMs has passed: the store forgets the client's count
WindowElapses ==
    /\ served > 0
    /\ hits' = 0
    /\ served' = 0
    /\ lastAnswer' = NoAnswer
    /\ UNCHANGED <<tokenVars, auditVars, graphFetches>>
    /\ UNCHANGED <<policyFile, allowedRanges, lockedRanges, loads, arg, probe,
                   lastValidation, httpVars, resolverVars>>

InitLimiter == InitToken

NextLimiter ==
    \/ \E tokenOk \in BOOLEAN : ExcelRequest(tokenOk)
    \/ WindowElapses

SpecLimiter == InitLimiter /\ [][NextLimiter]_vars

(***************************************************************************)
(* AuditLogger.  auditLogger.middleware() is in the chains of /write and   *)
(* /add-table-rows; its finish handler calls addAuditEntry, which reads    *)
(* audit-log.json, pushes the entry and writes the file back.  An entry is *)
(* named by a number; the file is readable and writable.                   *)
(***************************************************************************)
\* if (entries.length > 1000)
auditLogLimit == 1000

\* the path test of auditLogger.middleware for a POST
auditMiddlewareLogs(path) ==
    IncludesText(path, ExcelWriteText) \/ IncludesText(path, AddTableRowsText)

\* entries.push(entry) and the splice that keeps the last 1000
pushEntry(entries, entry) ==
    LET pushed == Append(entries, entry)
    IN  IF Len(pushed) > auditLogLimit
        THEN SubSeq(pushed, Len(pushed) - auditLogLimit + 1, Len(pushed))
        ELSE pushed

AuditTask(entry) == [entry |-> entry, step |-> "read", entries |-> <<>>]

\* the response of a POST to url finishes: the middleware, if its path test
\* held, calls addAuditEntry in its finish handler
FinishWrite(url) ==
    LET id == Cardinality(auditEvents) + 1
    IN  /\ Cardinality(auditEvents) < MaxAudits
        /\ auditEvents' = auditEvents \cup {[id |-> id, kind |-> "request", url |-> url]}
        /\ auditTasks' = IF auditMiddlewareLogs(reqPath(url, MountPath))
                         THEN Append(auditTasks, AuditTask(id))
                         ELSE auditTasks
        /\ UNCHANGED <<auditFile, tokenVars, limiterVars, graphFetches>>
        /\ UNCHANGED <<policyFile, allowedRanges, lockedRanges, loads, arg, probe,
                       lastValidation, httpVars, resolverVars>>

\* addAuditEntry(entry) up to await this.readAuditLog()
addAuditEntry ==
    LET id == Cardinality(auditEvents) + 1
    IN  /\ Cardinality(auditEvents) < MaxAudits
        /\ auditEvents' = auditEvents \cup {[id |-> id, kind |-> "call", url |-> <<>>]}
        /\ auditTasks' = Append(auditTasks, AuditTask(id))
        /\ UNCHANGED <<auditFile, tokenVars, limiterVars, graphFetches>>
        /\ UNCHANGED <<policyFile, allowedRanges, lockedRanges, loads, arg, probe,
                       lastValidation, httpVars, resolverVars>>

\* readAuditLog returns: entries.push(entry), the splice, then
\* await this.writeAuditLog(entries)
readAuditLog(i) ==
    /\ auditTasks[i].step = "read"
    /\ auditTasks' = [auditTasks EXCEPT ![i].step = "write",
                                        ![i].entries = pushEntry(auditFile, auditTasks[i].entry)]
    /\ UNCHANGED <<auditFile, auditEvents, tokenVars, limiterVars, graphFetches>>
    /\ UNCHANGED <<policyFile, allowedRanges, lockedRanges, loads, arg, probe,
                   lastValidation, httpVars, resolverVars>>

\* fs.writeFile of writeAuditLog is done; addAuditEntry returns
writeAuditLog(i) ==
    /\ auditTasks[i].step = "write"
    /\ auditFile' = auditTasks[i].entries
    /\ auditTasks' = RemoveAt(auditTasks, i)
    /\ UNCHANGED <<auditEvents, tokenVars, limiterVars, graphFetches>>
    /\ UNCHANGED <<policyFile, allowedRanges, lockedRanges, loads, arg, probe,
                   lastValidation, httpVars, resolverVars>>

InitAudit == InitToken

NextAudit ==
    \/ \E url \in {WriteUrl, AddTableRowsUrl} : FinishWrite(url)
    \/ addAuditEntry
    \/ \E i \in 1..Len(auditTasks) : readAuditLog(i)
    \/ \E i \in 1..Len(auditTasks) : writeAuditLog(i)

SpecAudit == InitAudit /\ [][NextAudit]_vars

(***************************************************************************)
(* Vocabulary of the properties: the cells a parsed range denotes,         *)
(* whichever corner is written first.                                      *)
(***************************************************************************)
Min(a, b) == IF a <= b THEN a ELSE b

Max(a, b) == IF a >= b THEN a ELSE b

CellsOf(p) ==
    {<<c, r>> : c \in Min(p.startCell.col, p.endCell.col)..Max(p.startCell.col, p.endCell.col),
                r \in Min(p.startCell.row, p.endCell.row)..Max(p.startCell.row, p.endCell.row)}

SheetCompatible(p, q) ==
    p.sheetName = <<>> \/ q.sheetName = <<>> \/ p.sheetName = q.sheetName

SharesCell(p, q) == SheetCompatible(p, q) /\ CellsOf(p) \cap CellsOf(q) # {}

LiesWithin(p, q) == SheetCompatible(p, q) /\ CellsOf(p) \subseteq CellsOf(q)

AllParse(list) == \A i \in 1..Len(list) : parseRange(list[i]).ok

RequestedOf(v) == parseRange(QualifiedRange(v.range, v.worksheetId))

HitsLock(v) ==
    \E i \in 1..Len(v.lockedRanges) :
        /\ parseRange(v.lockedRanges[i]).ok
        /\ SharesCell(RequestedOf(v), parseRange(v.lockedRanges[i]))

WithinSomeAllowed(v) ==
    \E i \in 1..Len(v.allowedRanges) :
        /\ parseRange(v.allowedRanges[i]).ok
        /\ LiesWithin(RequestedOf(v), parseRange(v.allowedRanges[i]))

IsReversed(p) == p.startCell.col > p.endCell.col \/ p.startCell.row > p.endCell.row

\* a parse failure that the evaluation order of validateRange runs into
ParseFailureReached(v) ==
    LET p == RequestedOf(v)
        passesLocked(j) == /\ parseRange(v.lockedRanges[j]).ok
                           /\ ~rangesOverlap(p, parseRange(v.lockedRanges[j]))
        passesAllowed(j) == /\ parseRange(v.allowedRanges[j]).ok
                            /\ ~(/\ rangesOverlap(p, parseRange(v.allowedRanges[j]))
                                 /\ isRangeContained(p, parseRange(v.allowedRanges[j])))
    IN  \/ ~p.ok
        \/ /\ p.ok
           /\ \E i \in 1..Len(v.lockedRanges) :
                 /\ ~parseRange(v.lockedRanges[i]).ok
                 /\ \A j \in 1..(i-1) : passesLocked(j)
        \/ /\ p.ok
           /\ \A j \in 1..Len(v.lockedRanges) : passesLocked(j)
           /\ \E i \in 1..Len(v.allowedRanges) :
                 /\ ~parseRange(v.allowedRanges[i]).ok
                 /\ \A j \in 1..(i-1) : passesAllowed(j)

(***************************************************************************)
(* Properties.                                                             *)
(***************************************************************************)

\* C1: whenever the requested range parses and shares a cell with a locked
\* entry on a compatible sheet, validateRange answers allowed = FALSE with
\* code RANGE_LOCKED, whatever the allowed list holds and in whichever order
\* the two corners of the request are written.
C1_LockAlwaysWins ==
    lastValidation.called =>
        (RequestedOf(lastValidation).ok /\ HitsLock(lastValidation)
            => /\ lastValidation.result.allowed = FALSE
               /\ lastValidation.result.code = "RANGE_LOCKED")

\* C2: validateRange answers allowed = TRUE (RANGE_ALLOWED) only for a request
\* whose cells all lie within one allowed entry; a request that lies within
\* no single allowed entry is never allowed, and when the allow list is what
\* decides (the request parses, no locked entry is hit, the entries parse)
\* its code is RANGE_NOT_ALLOWED.
C2_AllowedOnlyIfContained ==
    lastValidation.called =>
        LET v == lastValidation
        IN  /\ v.result.allowed =>
                  /\ v.result.code = "RANGE_ALLOWED"
                  /\ RequestedOf(v).ok
                  /\ WithinSomeAllowed(v)
            /\ (RequestedOf(v).ok /\ ~WithinSomeAllowed(v)) => v.result.allowed = FALSE
            /\ (/\ RequestedOf(v).ok
                /\ ~WithinSomeAllowed(v)
                /\ AllParse(v.lockedRanges)
                /\ AllParse(v.allowedRanges)
                /\ ~HitsLock(v)) => v.result.code = "RANGE_NOT_ALLOWED"

\* a request that overlaps an allowed entry without lying within it, and
\* hits no lock, was refused with RANGE_NOT_ALLOWED
C2_Witness ==
    /\ lastValidation.called
    /\ RequestedOf(lastValidation).ok
    /\ lastValidation.result.code = "RANGE_NOT_ALLOWED"
    /\ ~WithinSomeAllowed(lastValidation)
    /\ \E i \in 1..Len(lastValidation.allowedRanges) :
          /\ parseRange(lastValidation.allowedRanges[i]).ok
          /\ SharesCell(RequestedOf(lastValidation), parseRange(lastValidation.allowedRanges[i]))

\* C3: two parsed ranges that both carry a sheet name, with different names,
\* neither overlap nor contain one another, whatever their coordinates.
C3_CrossSheetIsolation ==
    probe.op = "geometry" =>
        ((/\ probe.range1.sheetName # <<>>
          /\ probe.range2.sheetName # <<>>
          /\ probe.range1.sheetName # probe.range2.sheetName)
            => ~probe.overlap /\ ~probe.contained)

\* the same coordinates on two different named sheets were compared
C3_Witness ==
    /\ probe.op = "geometry"
    /\ probe.range1.sheetName = <<"S">>
    /\ probe.range2.sheetName = <<"T">>
    /\ probe.range1.startCell = probe.range2.startCell
    /\ probe.range1.endCell = probe.range2.endCell
    /\ ~probe.overlap
    /\ ~probe.contained

\* C6: validateRange lets no exception escape; whenever the parse of the
\* request, or of a policy entry the evaluation reaches, fails, the call
\* returns allowed = FALSE with code VALIDATION_ERROR.
C6_NeverThrows ==
    lastValidation.called =>
        /\ lastValidation.result.code \in
              {"RANGE_LOCKED", "RANGE_ALLOWED", "RANGE_NOT_ALLOWED", "VALIDATION_ERROR"}
        /\ lastValidation.result.allowed \in BOOLEAN
        /\ ParseFailureReached(lastValidation) =>
              /\ lastValidation.result.allowed = FALSE
              /\ lastValidation.result.code = "VALIDATION_ERROR"

\* the request parsed, a policy entry did not, and the call still returned
C6_Witness ==
    /\ lastValidation.called
    /\ RequestedOf(lastValidation).ok
    /\ ParseFailureReached(lastValidation)
    /\ lastValidation.result.code = "VALIDATION_ERROR"

\* C7: each address parser accepts a string exactly when it has one of the
\* four address forms (cell:cell, cell, column:column, row:row), optionally
\* prefixed by a sheet name and '!'.
C7_ParserAcceptsFourForms ==
    probe.op = "parse" =>
        /\ probe.validator.ok <=> probe.schema
        /\ probe.utils.ok <=> probe.schema


\* C5: every validateRange call decides on the lists the policy document
\* holds at the moment of the call (a document that cannot be loaded counts
\* as two empty lists)
C5_ValidationUsesCurrentPolicy ==
    lastValidation.called =>
        /\ lastValidation.allowedRanges = lastValidation.file.allowedRanges
        /\ lastValidation.lockedRanges = lastValidation.file.lockedRanges


\* C4: a PATCH reaches Graph only in a request in which validateRange was
\* called and returned allowed
C4_PatchOnlyAfterPolicyAllows ==
    \A i \in 1..Len(graphCalls) :
        graphCalls[i].method = "PATCH" =>
            \E j \in 1..Len(requestValidations) : requestValidations[j].result.allowed

\* C8: an authenticated POST /api/excel/write whose range string, as sent,
\* matches none of the address patterns is answered with 400
C8_MalformedRangeIs400 ==
    ( /\ lastRequest.url = WriteUrl
      /\ Has(lastRequest.body, "range")
      /\ ~schemasRange(lastRequest.body.range)
      /\ lastResponse.status # 401 )
        => lastResponse.status = 400


\* C9: a lookup that finds an entry for its key returns that entry's id
\* without a listing request when the entry is younger than 10 minutes, and
\* sends a listing request when it is 10 minutes old or older
C9_CacheFreshness ==
    (lastLookup.kind # "none" /\ lastLookup.step = "start" /\ lastLookup.hadEntry) =>
        IF lastLookup.at - lastLookup.entry.ts < 10 * 60 * 1000
        THEN lastLookup.hit /\ ~lastLookup.listing /\ lastLookup.id = lastLookup.entry.id
        ELSE ~lastLookup.hit /\ lastLookup.listing

\* C9 witness: an entry one millisecond short of 10 minutes old is served
C9_Witness ==
    /\ lastLookup.kind # "none"
    /\ lastLookup.step = "start"
    /\ lastLookup.hadEntry
    /\ lastLookup.at - lastLookup.entry.ts = 10 * 60 * 1000 - 1
    /\ lastLookup.hit

\* C10 as stated: ResolverService serves a cached id only to a lookup whose
\* full scope, (driveId, itemName) for an item and (driveId, itemId,
\* worksheetName) for a worksheet, equals the scope of the lookup that
\* stored it
C10_FullScopeKeys ==
    (lastLookup.kind # "none" /\ resolver = "service" /\ lastLookup.hit) =>
        lastLookup.entry.by = lastLookup.lookup

\* C10 amended: ResolverService serves a cached id only to a lookup that
\* agrees with the storing lookup on (driveId, itemName) for an item and on
\* (itemId, worksheetName) for a worksheet; the drive of a worksheet lookup
\* is not part of its key
C10_KeyScopeKeys ==
    (lastLookup.kind # "none" /\ resolver = "service" /\ lastLookup.hit) =>
        IF lastLookup.kind = "worksheet"
        THEN /\ lastLookup.entry.by.itemId = lastLookup.lookup.itemId
             /\ lastLookup.entry.by.name = lastLookup.lookup.name
        ELSE lastLookup.entry.by = lastLookup.lookup

\* C10 witness: a worksheet lookup served from the entry that a lookup in
\* another drive stored, while the item cache holds an entry per drive
C10_Witness ==
    /\ lastLookup.kind = "worksheet"
    /\ resolver = "service"
    /\ lastLookup.hit
    /\ lastLookup.entry.by.driveId # lastLookup.lookup.driveId
    /\ Has(itemCache, Key2(<<"1">>, <<"B">>))
    /\ Has(itemCache, Key2(<<"2">>, <<"B">>))


\* the names of a listing that equal the requested name ignoring letter case
CaseInsensitiveMatches(lookup) ==
    {i \in 1..Len(listingOf(lookup)) :
        toLowerCase(listingOf(lookup)[i].name) = toLowerCase(lookup.name)}

\* C11: a drive, item or worksheet resolution of ResolverService whose
\* listing request returned succeeds if and only if the listing holds a name
\* equal to the requested one ignoring letter case
C11_CaseInsensitiveExactMatch ==
    ( /\ lastLookup.kind # "none"
      /\ resolver = "service"
      /\ lastLookup.step = "finish"
      /\ lastLookup.status # 500 )
        => (lastLookup.status = 200 <=> CaseInsensitiveMatches(lastLookup.lookup) # {})

\* C12: every not-found failure of a ResolverService resolution has status
\* 404 and carries the names listed at its scope
C12_NotFoundCarriesAvailable ==
    ( /\ lastLookup.kind # "none"
      /\ resolver = "service"
      /\ lastLookup.step = "finish"
      /\ lastLookup.status \notin {200, 500} )
        => /\ lastLookup.status = 404
           /\ lastLookup.names = Names(listingOf(lastLookup.lookup))

\* C13: a resolution call that starts while its key has no fresh cache entry
\* issues one more listing request, however many requests for the same key
\* are already in flight
C13_NoInFlightDeduplication ==
    [][ ( /\ lastLookup'.kind # "none"
          /\ lastLookup'.step = "start"
          /\ ~lastLookup'.hit )
            => /\ Len(pending') = Len(pending) + 1
               /\ pending'[Len(pending')].key = lastLookup'.key ]_vars

C13_Witness ==
    /\ lastLookup.kind # "none"
    /\ lastLookup.step = "start"
    /\ ~lastLookup.hit
    /\ Len(pending) = 2
    /\ pending[1].key = pending[2].key

\* C14: in api/index.js at most one token request is in flight at any time,
\* and a getAccessToken call made while one is in flight returns what that
\* request returned
C14_RefreshDeduplicated ==
    /\ Cardinality(InFlight) <= 1
    /\ \A c \in 1..MaxCallers :
          (callers[c].pc = "done" /\ callers[c].arrived # {})
              => \E i \in callers[c].arrived : callers[c].result = Outcome(i)

C14_Witness ==
    \E c1, c2 \in 1..MaxCallers :
        /\ c1 # c2
        /\ callers[c1].pc = "done"
        /\ callers[c2].pc = "done"
        /\ callers[c1].arrived = {}
        /\ callers[c1].fetch # 0
        /\ callers[c2].arrived = {callers[c1].fetch}
        /\ callers[c2].result = callers[c1].result

\* C15: AzureAuthService.getAccessToken has at most one
\* acquireTokenByClientCredential call in flight at any time, and a call made
\* while one is in flight returns its token
C15_AcquireDeduplicated ==
    /\ Cardinality(InFlight) < 2
    /\ \A c \in 1..MaxCallers :
          (callers[c].pc = "done" /\ callers[c].arrived # {} /\ callers[c].result.ok)
              => callers[c].result.token \in callers[c].arrived

\* the resources of the latest check have no entry in any permission map
NoEntryAtAnyLevel ==
    \A t \in ResourceTypes : ~Has(permissionMap(t), ResourceId(t))

\* C16: for an admin every check allows; for a non-admin user and resources
\* without an entry at any level the two read checks allow and the two write
\* checks deny
C16_CoarseDefaults ==
    probe.op = "permission" =>
        /\ isAdmin(probe.userId) =>
              /\ probe.accessWorkbook
              /\ probe.accessWorksheet
              /\ probe.readRange.allowed
              /\ probe.writeRange.allowed
              /\ probe.readTable.allowed
              /\ probe.writeTable.allowed
        /\ (~isAdmin(probe.userId) /\ NoEntryAtAnyLevel) =>
              /\ probe.readRange.allowed
              /\ probe.readTable.allowed
              /\ ~probe.writeRange.allowed
              /\ ~probe.writeTable.allowed

C16_Witness ==
    /\ probe.op = "permission"
    /\ ~isAdmin(probe.userId)
    /\ NoEntryAtAnyLevel
    /\ probe.readTable.reason = "Inherited from worksheet"
    /\ probe.writeTable.reason = "No write permission"

\* C17: a non-admin user among the writers of the workbook, with no table
\* entry and no worksheet entry, is allowed to write the table
C17_WorkbookWriterWritesTable ==
    ( /\ probe.op = "permission"
      /\ ~isAdmin(probe.userId)
      /\ Has(permissions.workbooks, TheWorkbook)
      /\ IsWriter(permissions.workbooks[TheWorkbook], probe.userId)
      /\ ~Has(permissions.tables, ResourceId("table"))
      /\ ~Has(permissions.worksheets, ResourceId("worksheet")) )
        => probe.writeTable.allowed

\* the latest request is the documented add-table-rows request: ids, the
\* table's name, rows, no range; sent by a user allowed to write the table,
\* with a token at hand
DocumentedTableRequest ==
    /\ lastRequest.url = AddTableRowsUrl
    /\ requestSchemasAddTableRows(lastRequest.body)
    /\ ~Has(lastRequest.body, "range")
    /\ canWriteTable(auditContextUser(lastRequest), lastRequest.body.itemId,
                     lastRequest.body.worksheetId, lastRequest.body.tableName).allowed
    /\ lastResponse.message # "Authentication failed"

WriteRefused ==
    /\ lastRequest.url = WriteUrl
    /\ lastResponse.message # "Authentication failed"
    /\ LET body == sanitizeRequest(lastRequest.body)
       IN  /\ requestSchemasWriteRange(body)
           /\ validateRangeValuesCompatibility(body)
           /\ ~canWriteRange(auditContextUser(lastRequest), body.itemId, body.worksheetId,
                             parseSheetAndAddress(body.range).address).allowed

\* C19: a write refused by the permission service is answered 403 with the
\* denial reason, whatever NODE_ENV is
C19_DenialIs403 ==
    WriteRefused =>
        /\ lastResponse.status = 403
        /\ lastResponse.message =
               "Write access denied: "
               \o canWriteRange(auditContextUser(lastRequest),
                                sanitizeRequest(lastRequest.body).itemId,
                                sanitizeRequest(lastRequest.body).worksheetId,
                                parseSheetAndAddress(
                                    sanitizeRequest(lastRequest.body).range).address).reason

\* C20: within one window the first 100 requests of a client to /api/excel
\* are not answered 429, and the 101st is
C20_HundredPerWindow ==
    /\ lastAnswer.n \in 1..RATE_LIMIT_MAX_REQUESTS => lastAnswer.status # 429
    /\ lastAnswer.n = RATE_LIMIT_MAX_REQUESTS + 1 => lastAnswer.status = 429

\* C21: once no addAuditEntry call is under way, the audit file holds the
\* entry of every finished write request and of every addAuditEntry call
C21_EveryWriteLogged ==
    auditTasks = <<>> =>
        \A e \in auditEvents : \E k \in 1..Len(auditFile) : auditFile[k] = e.id

\* C22: turning a column number in 1..16384 into letters and the letters
\* back into a number gives the number again
C22_ColumnRoundTrip ==
    probe.op = "column" => probe.number = probe.num

\* C22 witness: the last column, 16384, went out as XFD and came back
C22_Witness ==
    /\ probe.op = "column"
    /\ probe.num = 16384
    /\ probe.letters = <<"X", "F", "D">>
    /\ probe.number = 16384

\* C23: for a request that parses and overlaps no locked entry, validateRange
\* answers RANGE_ALLOWED exactly when isRangeContained holds of the request
\* and some allowed entry; the rangesOverlap test before it changes nothing,
\* reversed requests included
C23_ContainmentAloneDecides ==
    lastValidation.called =>
        LET v == lastValidation
        IN  (/\ RequestedOf(v).ok
             /\ AllParse(v.lockedRanges)
             /\ ~HitsLock(v))
                => (v.result.code = "RANGE_ALLOWED"
                      <=> \E i \in 1..Len(v.allowedRanges) :
                             /\ parseRange(v.allowedRanges[i]).ok
                             /\ isRangeContained(RequestedOf(v), parseRange(v.allowedRanges[i])))

\* C24: the policy document has taken its final content, a validateRange
\* call made since then has started a load, and every load has completed:
\* the lists in memory are those of the document
C24_ReloadConverges ==
    (/\ policyFile = FinalPolicy
     /\ lastValidation.called
     /\ lastValidation.file = FinalPolicy
     /\ loads = <<>>)
        => /\ allowedRanges = FinalPolicy.allowedRanges
           /\ lockedRanges = FinalPolicy.lockedRanges

\* C25: when the latest loadConfig to complete has failed, both lists are
\* empty, and every validateRange call made then is answered allowed = FALSE
C25_FailClosed ==
    [][ (probe'.op = "load" /\ ~probe'.ok)
          => /\ allowedRanges' = <<>>
             /\ lockedRanges' = <<>>
             /\ (lastValidation' # lastValidation => ~lastValidation'.result.allowed) ]_vars

\* C25 witness: the latest load failed, the lists are empty, and a request
\* the document on disk allows was refused on the empty lists
C25_Witness ==
    /\ probe = LoadLogged(FALSE)
    /\ allowedRanges = <<>>
    /\ lockedRanges = <<>>
    /\ lastValidation.called
    /\ lastValidation.file.allowedRanges # <<>>
    /\ lastValidation.allowedRanges = <<>>
    /\ lastValidation.result.code = "RANGE_NOT_ALLOWED"

\* C26: a graphFetch call sends at most two requests; it sends the second
\* only when the first was answered 401, and only after cachedToken and
\* tokenExpiresAt were cleared; a 401 on the second ends the call with an
\* error, without a third request
C26_SingleRetryOn401 ==
    \A g \in 1..Len(graphFetches) :
        LET call == graphFetches[g]
        IN  /\ Len(call.requests) <= 2
            /\ (call.cleared # NotCleared \/ Len(call.requests) = 2)
                  => /\ call.requests[1] = 401
                     /\ call.cleared = [token |-> 0, expiresAt |-> 0]
            /\ (Len(call.requests) = 2 /\ call.requests[2] = 401)
                  => call.pc = "done" /\ call.result = "error"

\* C26 witness: a call whose cached token was answered 401 sent a second
\* request, which was answered 401 as well, and has thrown
C26_Witness ==
    \E g \in 1..Len(graphFetches) :
        /\ graphFetches[g].requests = <<401, 401>>
        /\ graphFetches[g].pc = "done"
        /\ graphFetches[g].result = "error"

\* a body whose range is a forward cell:cell range, bare or sheet-qualified,
\* of R rows and C columns, with values of R rows of C cells each
WellFormedWrite(body) ==
    /\ Has(body, "range")
    /\ Has(body, "values")
    /\ LET parsed == parseRange(body.range)
           rows == parsed.endCell.row - parsed.startCell.row + 1
           cols == parsed.endCell.col - parsed.startCell.col + 1
       IN  /\ parsed.ok
           /\ rows >= 1
           /\ cols >= 1
           /\ Len(body.values) = rows
           /\ \A i \in 1..Len(body.values) : Len(body.values[i]) = cols

\* C27: a POST /api/excel/write whose body is a well-formed write is never
\* answered 'Range-values mismatch': validateRangeValuesCompatibility calls
\* next()
C27_WellFormedWritePasses ==
    (lastRequest.url = WriteUrl /\ WellFormedWrite(lastRequest.body))
        => lastResponse.message # "Range-values mismatch"

\* C28: a non-admin user whom canAccessWorksheet refuses is refused by
\* canReadRange for a range without an entry of its own, and by
\* canReadTable for a table without an entry of its own
C28_NoWorksheetAccessNoRead ==
    (probe.op = "permission" /\ ~isAdmin(probe.userId) /\ ~probe.accessWorksheet) =>
        /\ ~Has(permissions.ranges, ResourceId("range")) => ~probe.readRange.allowed
        /\ ~Has(permissions.tables, ResourceId("table")) => ~probe.readTable.allowed

\* C29: a removePermission call that follows the addPermission call of the
\* same resource, user and permission leaves every check, for every user,
\* answering what it answered before the addPermission call
C29_GrantThenRevokeIsNeutral ==
    [][ \A t \in ResourceTypes, u \in GrantUsers, p \in PermissionKinds :
          (/\ arg.other # <<>>
           /\ arg.other.grant = <<t, u, p>>
           /\ arg.other.after = permissions
           /\ removePermission(t, ResourceId(t), u, p))
             => \A v \in PermissionUsers : AccessDecisions(v)' = arg.other.before[v] ]_vars

\* the indexes of the operations a batch attempted
BatchAttempted ==
    {probe.results[j] : j \in 1..Len(probe.results)}
        \cup {probe.errors[j].index : j \in 1..Len(probe.errors)}

====
